---- MODULE Spec2Model ----
(***************************************************************************)
(* Incremental event ingestion of the Duke backend:                        *)
(*   app/scheduler/generic_events_scheduler.py                             *)
(* One ingestion run (generic_events_fetch_job or                          *)
(* face_events_fetch_and_post_logic) is a coroutine; its position is pc.   *)
(* The vendor API, the system-of-record and the clock are the environment. *)
(***************************************************************************)
EXTENDS Integers, Sequences, FiniteSets, TLC

VARIABLES
    now,                  \* the wall clock, datetime.now(timezone.utc)
    ticks,                \* how often the clock has advanced
    settings,             \* the process-wide settings object
    store,                \* system-of-record: the stored records of the job's type
    vendor,               \* the vendor's search cursor
    job,                  \* the scheduled job this process instance runs
    pc,                   \* position of the current run
    server_id,            \* local of the job
    latest_timestamp_str, \* local of the job: the watermark as reported
    from_time_dt,         \* local of the job
    to_time_dt,           \* local of the job
    gender,               \* face job: index into gender_descriptors
    params,               \* fetcher: params / json_payload of the next request
    page_num,             \* fetcher: requests made in this sequence
    token,                \* fetcher: token of the last response
    event_page,           \* job: the page the fetcher yielded
    events_to_post,       \* job: the body of the POST being made
    page_number,          \* job: pages taken from the fetcher
    total_pages_processed,\* face job: pages over both genders
    total_posted_count,   \* job: events_stored of the summary
    total_failed_pages,   \* job: failed_pages of the summary
    outcome,              \* how the current run ended
    calls,                \* the run's external calls and their results
    failed_last_run,      \* ids of the events whose POST failed in the run before,
                          \* kept until this run has determined its window
    trace,                \* the current fetch sequence's calls, in order
    accepted,             \* source ids of the records of the pages the
                          \* system-of-record has accepted (POST answered 2xx)
    prev_watermark,       \* the watermark the last run that read one has read,
                          \* kept until this run has read its own
    faces,                \* vector service: the faces of the collection
    rek_users,            \* vector service: the user ids of the collection
    rek_assoc,            \* vector service: the (user id, face id) associations
    central_users,        \* system-of-record: the identity records
    uuids,                \* the ids uuid4 has generated
    frames,               \* the resolver invocations: position, locals, calls
    enrich_pc,            \* media enrichment: position of the run
    events_to_process,    \* media enrichment: the batch being enriched
    update_payloads,      \* media enrichment: the batch's tasks and results
    valid_updates,        \* media enrichment: the payloads that are not None
    total_enriched_count, \* media enrichment: the summary's count
    enriched,             \* system-of-record: the events that have media
    bucket,               \* object store: the events an image was put for
    media_posts,          \* the update POSTs made for the current batch
    coroutines,           \* overlapping ingestion runs: position and locals
    delivered,            \* how often each event was in an accepted POST
    recog_pc,             \* facial recognition job: position of the run
    recog_events,         \* facial recognition job: events_to_process
    recog_k,              \* facial recognition job: position in the batch
    updates_to_send,      \* facial recognition job: the batch's updates
    recog_log,            \* what processing each event of the batch gave
    total_processed_count,\* facial recognition job: the final log's count
    recognised,           \* system-of-record: events with an accepted update
    update_posts,         \* the update POSTs made for the current batch
    audit_pc,             \* orphan audit: position of audit_users
    all_users,            \* orphan audit: the users listed from Rekognition
    central_users_by_id,  \* orphan audit: the central users, by _id
    orphaned_users,       \* orphan audit: the user ids found orphaned
    audit_report,         \* orphan audit: the orphaned users printed
    audit_failed          \* orphan audit: a call of the run has failed

vars == <<now, ticks, settings, store, vendor, job, pc, server_id,
          latest_timestamp_str, from_time_dt, to_time_dt, gender, params,
          page_num, token, event_page, events_to_post, page_number,
          total_pages_processed, total_posted_count, total_failed_pages,
          outcome, calls, failed_last_run, trace, accepted, prev_watermark,
          faces, rek_users, rek_assoc, central_users, uuids, frames,
          enrich_pc, events_to_process, update_payloads, valid_updates,
          total_enriched_count, enriched, bucket, media_posts,
          coroutines, delivered, recog_pc, recog_events, recog_k,
          updates_to_send, recog_log, total_processed_count, recognised,
          update_posts, audit_pc, all_users, central_users_by_id,
          orphaned_users, audit_report, audit_failed>>

\* the state of overlapping runs of one ingestion job
ovars == <<coroutines, delivered>>

\* the state of the facial recognition job
\* (scheduler/event_facial_recognition_scheduler.py)
fvars == <<recog_pc, recog_events, recog_k, updates_to_send, recog_log,
           total_processed_count, recognised, update_posts>>

\* the state of the orphan audit (find_orphaned_users.py)
avars == <<audit_pc, all_users, central_users_by_id, orphaned_users,
           audit_report, audit_failed>>

\* the state of the subsystems that are modelled apart from the ingestion
\* run, the identity resolver and the media enrichment
xvars == <<ovars, fvars, avars>>

\* the state of the media enrichment job
\* (scheduler/generic_events_media_scheduler.py)
mvars == <<enrich_pc, events_to_process, update_payloads, valid_updates,
           total_enriched_count, enriched, bucket, media_posts>>

\* the state of the identity resolver (services/aws_services.py)
rvars == <<faces, rek_users, rek_assoc, central_users, uuids, frames>>

\* the state of the ingestion jobs
ivars == <<now, ticks, settings, store, vendor, job, pc, server_id,
           latest_timestamp_str, from_time_dt, to_time_dt, gender, params,
           page_num, token, event_page, events_to_post, page_number,
           total_pages_processed, total_posted_count, total_failed_pages,
           outcome, calls, failed_last_run, trace, accepted, prev_watermark>>

locals == <<server_id, latest_timestamp_str, from_time_dt, to_time_dt, gender,
            params, page_num, token, event_page, events_to_post, page_number,
            total_pages_processed, total_posted_count, total_failed_pages>>

----------------------------------------------------------------------------
(* Bounds of the model *)

MaxTicks == 2
MaxTokens == 2
NumEvents == 3
\* the identity resolver: invocations, faces per image, people in view
NumRuns == 2
MaxFaces == 2
NumPersons == 1
\* faces detected over all invocations
MaxDetections == 3
\* media enrichment: the events of the system-of-record, and the batch size
\* (BATCH_SIZE is 10 in the code; the loop only compares the length of a
\* batch with it)
NumMediaEvents == 4
BATCH_SIZE == 2

----------------------------------------------------------------------------
(* Optional values: None is the empty sequence, Some(x) is <<x>>; both are
   falsy / truthy as Python's None and a non-empty value are. *)

None == <<>>
Some(x) == <<x>>
Truthy(v) == v # <<>>
Val(v) == v[1]

----------------------------------------------------------------------------
(* datetime and timedelta, as Python keeps them: days and a time of day. *)

MsPerDay == 24 * 60 * 60 * 1000

Dt(d, m) == [day |-> d, ms |-> m]

PlusMs(dt, n) ==
    LET s == dt.ms + n
    IN  IF s >= MsPerDay THEN Dt(dt.day + 1, s - MsPerDay) ELSE Dt(dt.day, s)

MinusDays(dt, n) == Dt(dt.day - n, dt.ms)

DtGE(a, b) == a.day > b.day \/ (a.day = b.day /\ a.ms >= b.ms)
DtLE(a, b) == DtGE(b, a)

\* dt.isoformat() of an aware UTC datetime ends in +00:00
isoformat(dt) == [dt |-> dt, tz |-> "+00:00"]
\* s.replace("+00:00", "Z")
ReplaceOffsetByZ(s) == IF s.tz = "+00:00" THEN [s EXCEPT !.tz = "Z"] ELSE s
\* s.replace("Z", "+00:00")
ReplaceZByOffset(s) == IF s.tz = "Z" THEN [s EXCEPT !.tz = "+00:00"] ELSE s
\* datetime.fromisoformat(s) of a string with a UTC offset
fromisoformat(s) == s.dt

----------------------------------------------------------------------------
(* Program constants *)

API_PAGE_SIZE == 100
DEFAULT_BACKFILL_DAYS == 30
BUFFER_MS == 1

FACET_GENDER == "GENDER"
TAG_MALE == "MALE"
TAG_FEMALE == "FEMALE"

gender_descriptors ==
    << <<[facet |-> FACET_GENDER, tag |-> TAG_MALE]>>,
       <<[facet |-> FACET_GENDER, tag |-> TAG_FEMALE]>> >>

Jobs == {"generic", "face"}

----------------------------------------------------------------------------
(* The environment: the clock, the vendor's events, the system-of-record. *)

\* The clock starts one millisecond before midnight, so that the 1 ms buffer
\* carries into the next day.
T0 == Dt(100, MsPerDay - 1)

\* Vendor event i happened at T0 + (i - 2) ms; event 0 happened exactly
\* DEFAULT_BACKFILL_DAYS before T0.
EventIds == 0 .. NumEvents
EventTime(i) ==
    IF i = 0 THEN MinusDays(T0, DEFAULT_BACKFILL_DAYS)
    ELSE PlusMs(Dt(100, MsPerDay - 3), i)

GenderOf(i) == IF i % 2 = 1 THEN TAG_MALE ELSE TAG_FEMALE

\* A raw record as the vendor returns it.
RawEvent(i) ==
    [dict |-> TRUE, id |-> i,
     timestamp |-> Some(ReplaceOffsetByZ(isoformat(EventTime(i)))),
     deviceGid |-> IF i = 2 THEN None ELSE Some(i)]

\* Records the face job's transform drops: one without a timestamp, one that
\* is no JSON object.
NoTimestampRecord ==
    [dict |-> TRUE, id |-> NumEvents + 1, timestamp |-> None, deviceGid |-> Some("cam")]
NotADictRecord ==
    [dict |-> FALSE, id |-> NumEvents + 2, timestamp |-> None, deviceGid |-> None]

RECURSIVE SortedSeq(_)
SortedSeq(S) ==
    IF S = {} THEN <<>>
    ELSE LET m == CHOOSE x \in S : \A y \in S : x <= y
         IN  <<m>> \o SortedSeq(S \ {m})

RECURSIVE MapRaw(_)
MapRaw(ids) == IF ids = <<>> THEN <<>> ELSE <<RawEvent(Head(ids))>> \o MapRaw(Tail(ids))

\* The vendor's answer set of a TIME_RANGE query; the range is inclusive.
InRange(i, p) ==
    /\ DtLE(fromisoformat(ReplaceZByOffset(p.from)), EventTime(i))
    /\ DtLE(EventTime(i), fromisoformat(ReplaceZByOffset(p.to)))

VendorMatches(p) ==
    IF "queryDescriptors" \in DOMAIN p
    THEN {i \in EventIds : InRange(i, p) /\ GenderOf(i) = p.queryDescriptors[1].tag}
    ELSE {i \in EventIds : InRange(i, p)}

\* Records a face search may return after the matches.
VendorJunk(p) ==
    IF "queryDescriptors" \in DOMAIN p
    THEN IF p.queryDescriptors[1].tag = TAG_MALE
         THEN {<<>>, <<NoTimestampRecord>>}
         ELSE {<<>>, <<NotADictRecord>>}
    ELSE {<<>>}

NoCursor == [remaining |-> <<>>, issued |-> 0, last |-> None]

\* GET /events/latest-timestamp: the latest timestamp among the stored records
TimestampsOf(S) == {fromisoformat(ReplaceZByOffset(Val(r.timestamp))) : r \in S}
MaxDt(D) == CHOOSE d \in D : \A e \in D : DtGE(d, e)
LatestTimestamp(S) == IF S = {} THEN None ELSE Some(MaxDt(TimestampsOf(S)))

\* POST /store-events: the store deduplicates by source id
RECURSIVE StoreAccept(_, _)
StoreAccept(S, events) ==
    IF events = <<>> THEN S
    ELSE LET e == Head(events)
         IN  StoreAccept(IF \E r \in S : r.id = e.id THEN S ELSE S \cup {e},
                         Tail(events))

----------------------------------------------------------------------------
(* Initial state: the process has started, no run has been made yet. *)

InitLocals ==
    /\ server_id = None
    /\ latest_timestamp_str = None
    /\ from_time_dt = None
    /\ to_time_dt = None
    /\ gender = 0
    /\ params = None
    /\ page_num = 0
    /\ token = None
    /\ event_page = <<>>
    /\ events_to_post = <<>>
    /\ page_number = 0
    /\ total_pages_processed = 0
    /\ total_posted_count = 0
    /\ total_failed_pages = 0

NoCalls ==
    [servers |-> [called |-> FALSE, raised |-> FALSE, resp |-> None],
     latest_ts |-> "none", backfill_now |-> None,
     reqs |-> 0, yielded |-> 0, postable |-> 0, posts |-> 0, failed |-> 0,
     failed_ids |-> {}, stored |-> 0, counted |-> TRUE, credited |-> 0]

\* The manual override is configuration: unset, or a start time.
Overrides == {None, Some(isoformat(Dt(100, MsPerDay - 3)))}

Runs == 1 .. NumRuns
Persons == 1 .. NumPersons

\* The frame of process_all_faces_in_image before it is called; the locals
\* of the loop body are those of the face being processed.
FaceLocals ==
    [called |-> <<>>, search_error |-> None, matched_face_id |-> None,
     new_face_id |-> None, user_id |-> None,
     created_ok |-> FALSE, rek_create_err |-> None,
     associated_ok |-> FALSE, rek_assoc_err |-> None]

IdleFrame ==
    [pc |-> "idle", alone |-> TRUE, detected |-> <<>>, i |-> 0,
     final_results |-> <<>>, face |-> FaceLocals]

\* The identity resolver before any invocation: an empty collection, no
\* identity records.
ResolverInit ==
    /\ faces = {}
    /\ rek_users = {}
    /\ rek_assoc = {}
    /\ central_users = {}
    /\ uuids = 0
    /\ frames = [r \in Runs |-> IdleFrame]

\* The frame of a run of generic_events_fetch_job before it is started
IdleRun ==
    [pc |-> "idle", server_id |-> None, latest_timestamp_str |-> None,
     from_time_dt |-> None, to_time_dt |-> None, remaining |-> <<>>,
     event_page |-> <<>>, total_failed_pages |-> 0, fetch_failed |-> FALSE,
     outcome |-> "none"]

\* No overlapping ingestion run has started.
OverlapInit ==
    /\ coroutines = [r \in Runs |-> IdleRun]
    /\ delivered = [i \in EventIds |-> 0]

\* The facial recognition job before any run: no event has an update yet.
RecogInit ==
    /\ recog_pc = "idle"
    /\ recog_events = <<>>
    /\ recog_k = 0
    /\ updates_to_send = <<>>
    /\ recog_log = <<>>
    /\ total_processed_count = 0
    /\ recognised = {}
    /\ update_posts = <<>>

\* The orphan audit before it is run
AuditInit ==
    /\ audit_pc = "idle"
    /\ all_users = <<>>
    /\ central_users_by_id = <<>>
    /\ orphaned_users = <<>>
    /\ audit_report = None
    /\ audit_failed = FALSE

\* The subsystems modelled apart, before they have run
ApartInit == OverlapInit /\ RecogInit /\ AuditInit

\* The media enrichment before any run: no event has media yet.
MediaInit ==
    /\ enrich_pc = "idle"
    /\ events_to_process = <<>>
    /\ update_payloads = <<>>
    /\ valid_updates = <<>>
    /\ total_enriched_count = 0
    /\ enriched = {}
    /\ bucket = {}
    /\ media_posts = <<>>

Init ==
    /\ now = T0
    /\ ticks = 0
    /\ \E o \in Overrides :
          settings = [AVIGILON_BASE |-> "https://vendor",
                      SESSION_TOKEN |-> "session",
                      GENERIC_BACKFILL_START_TIME |-> o,
                      FACE_BACKFILL_START_TIME |-> o]
    /\ store = {}
    /\ vendor = NoCursor
    /\ job \in Jobs
    /\ pc = "idle"
    /\ InitLocals
    /\ outcome = "none"
    /\ calls = NoCalls
    /\ failed_last_run = {}
    /\ trace = <<>>
    /\ accepted = {}
    /\ prev_watermark = None
    /\ ResolverInit
    /\ MediaInit
    /\ ApartInit

----------------------------------------------------------------------------
(* The clock *)

\* Time passes.  The program reads the clock only while it determines its
\* window, so the clock is advanced between runs and during that phase.
Tick ==
    /\ ticks < MaxTicks
    /\ pc \in {"idle", "done", "window", "bounds"}
    /\ ticks' = ticks + 1
    /\ now' = PlusMs(now, 1)
    /\ UNCHANGED <<settings, store, vendor, job, pc, locals, outcome, calls,
                   failed_last_run, accepted,
                   prev_watermark, rvars, mvars, xvars, trace>>

----------------------------------------------------------------------------
(* The scheduler invokes a job: generic_events_fetch_job, face_events_fetch_job *)

\* A fresh coroutine frame
ResetLocals ==
    /\ server_id' = None
    /\ latest_timestamp_str' = None
    /\ from_time_dt' = None
    /\ to_time_dt' = None
    /\ gender' = 0
    /\ params' = None
    /\ page_num' = 0
    /\ token' = None
    /\ event_page' = <<>>
    /\ events_to_post' = <<>>
    /\ page_number' = 0
    /\ total_pages_processed' = 0
    /\ total_posted_count' = 0
    /\ total_failed_pages' = 0

StartRun ==
    /\ pc \in {"idle", "done"}
    /\ pc' = "servers"
    /\ ResetLocals
    /\ outcome' = "running"
    /\ calls' = NoCalls
    /\ failed_last_run' = calls.failed_ids
    /\ prev_watermark' = IF Truthy(latest_timestamp_str)
                          THEN Some(fromisoformat(ReplaceZByOffset(
                                        Val(latest_timestamp_str))))
                          ELSE prev_watermark
    /\ trace' = <<>>
    /\ vendor' = NoCursor
    /\ UNCHANGED <<now, ticks, settings, store, job, accepted, rvars, mvars, xvars>>

Abort(why) ==
    /\ pc' = "done"
    /\ outcome' = why

----------------------------------------------------------------------------
(* 1. Get Server ID *)

\* What get_servers_service can hand back: None (a RequestError), or a response
\* with a status and the servers list of its body.
ServersResponses ==
    {None} \cup
    { Some([status_code |-> c, servers |-> l]) :
        c \in {200, 503},
        l \in { <<>>, <<[id |-> None]>>, <<[id |-> Some("server-1")]>> } }

ExtractServerIdAnyStatus(servers_resp) ==
    IF ~Truthy(servers_resp) THEN None
    ELSE LET servers_list == Val(servers_resp).servers
         IN  IF ~Truthy(servers_list) THEN None
             ELSE servers_list[1].id

\* The server id the job extracts, None where the code returns early.
ExtractServerId(servers_resp) ==
    IF ~(Truthy(servers_resp) /\ Val(servers_resp).status_code = 200) THEN None
    ELSE LET servers_list == Val(servers_resp).servers
         IN  IF ~Truthy(servers_list) THEN None
             ELSE servers_list[1].id

GetServers ==
    /\ pc = "servers"
    /\ \/ \* get_servers_service or .json() raises: except Exception, return
          /\ Abort("aborted_servers")
          /\ calls' = [calls EXCEPT
                          !.servers = [called |-> TRUE, raised |-> TRUE,
                                       resp |-> None]]
          /\ UNCHANGED server_id
       \/ \E servers_resp \in ServersResponses :
            LET sid == ExtractServerId(servers_resp)
            IN  /\ calls' = [calls EXCEPT
                                !.servers = [called |-> TRUE, raised |-> FALSE,
                                             resp |-> servers_resp]]
                /\ IF Truthy(sid)
                   THEN /\ server_id' = sid
                        /\ pc' = "window"
                        /\ UNCHANGED outcome
                   ELSE /\ Abort("aborted_servers")
                        /\ UNCHANGED server_id
    /\ UNCHANGED <<now, ticks, settings, store, vendor, job, failed_last_run, accepted,
                   prev_watermark, rvars, mvars, xvars,
                   trace, latest_timestamp_str, from_time_dt, to_time_dt, gender,
                   params, page_num, token, event_page, events_to_post,
                   page_number, total_pages_processed, total_posted_count,
                   total_failed_pages>>

----------------------------------------------------------------------------
(* 2. Determine the time window *)

ManualStart ==
    IF job = "generic" THEN settings.GENERIC_BACKFILL_START_TIME
    ELSE settings.FACE_BACKFILL_START_TIME

\* How the system-of-record writes a timestamp
StoreFormats == {"Z", "+00:00"}

StartTimeNoBackfill(latest) ==
    IF Truthy(latest)
    THEN fromisoformat(ReplaceZByOffset(Val(latest)))
    ELSE now

\* from_time_dt, given the body of the latest-timestamp response
StartTime(latest) ==
    IF Truthy(latest)
    THEN fromisoformat(ReplaceZByOffset(Val(latest)))
    ELSE MinusDays(now, DEFAULT_BACKFILL_DAYS)

OnWatermarkErrorBackfills ==
    /\ from_time_dt' = Some(MinusDays(now, DEFAULT_BACKFILL_DAYS))
    /\ pc' = "bounds"
    /\ UNCHANGED outcome

\* except Exception: "Could not determine start time ... Aborting job."
OnWatermarkError ==
    /\ Abort("aborted_window")
    /\ UNCHANGED from_time_dt

UsesOverrideForFirstBackfill(manual_start_time_str) ==
    Truthy(manual_start_time_str) /\ store = {}

\* if manual_start_time_str:
UsesOverride(manual_start_time_str) == Truthy(manual_start_time_str)

ResolveStart ==
    /\ pc = "window"
    /\ IF UsesOverride(ManualStart)
       THEN /\ from_time_dt' = Some(fromisoformat(Val(ManualStart)))
            /\ pc' = "bounds"
            /\ UNCHANGED <<latest_timestamp_str, outcome, calls>>
       ELSE \/ \* the GET fails or raise_for_status raises: except, return
               /\ calls' = [calls EXCEPT !.latest_ts = "error"]
               /\ OnWatermarkError
               /\ UNCHANGED latest_timestamp_str
            \/ \E f \in StoreFormats :
                 LET w == LatestTimestamp(store)
                     latest == IF Truthy(w) THEN Some([dt |-> Val(w), tz |-> f])
                               ELSE None
                 IN  /\ calls' = [calls EXCEPT
                                     !.latest_ts = "ok",
                                     !.backfill_now = IF Truthy(latest) THEN None
                                                      ELSE Some(now)]
                     /\ latest_timestamp_str' = latest
                     /\ from_time_dt' = Some(StartTime(latest))
                     /\ pc' = "bounds"
                     /\ UNCHANGED outcome
    /\ UNCHANGED <<now, ticks, settings, store, vendor, job, server_id,
                   to_time_dt, gender, params, page_num, token, event_page,
                   events_to_post, page_number, total_pages_processed,
                   total_posted_count, total_failed_pages, failed_last_run, accepted,
                   prev_watermark, rvars, mvars, xvars,
                   trace>>

\* from_time_dt + timedelta(milliseconds=1)
Buffered(dt) == PlusMs(dt, BUFFER_MS)

UpToDateStrict(from_dt, to_dt) ==
    /\ DtGE(Buffered(from_dt), to_dt)
    /\ Buffered(from_dt) # to_dt

\* from_time_dt_buffered >= to_time_dt
UpToDate(from_dt, to_dt) == DtGE(Buffered(from_dt), to_dt)

\* (from_time_iso, to_time_iso)
from_time_iso == ReplaceOffsetByZ(isoformat(Buffered(Val(from_time_dt))))
to_time_iso == ReplaceOffsetByZ(isoformat(Val(to_time_dt)))

ComputeWindow ==
    /\ pc = "bounds"
    /\ to_time_dt' = Some(now)
    /\ failed_last_run' = {}
    /\ prev_watermark' = None
    /\ IF UpToDate(Val(from_time_dt), now)
       THEN /\ Abort("up_to_date")
            /\ UNCHANGED gender
       ELSE /\ pc' = "fetch_init"
            /\ gender' = IF job = "face" THEN 1 ELSE 0
            /\ UNCHANGED outcome
    /\ UNCHANGED <<now, ticks, settings, store, vendor, job, server_id,
                   latest_timestamp_str, from_time_dt, params, page_num, token,
                   event_page, events_to_post, page_number,
                   total_pages_processed, total_posted_count,
                   total_failed_pages, calls, trace, accepted, rvars, mvars, xvars>>

----------------------------------------------------------------------------
(* The paginated fetchers: fetch_events_with_token_pagination and
   fetch_appearances_with_token_pagination *)

\* params of the initial request of the generic fetcher
InitialParams(sid, from_time, to_time, limit) ==
    [serverId |-> sid, session |-> settings.SESSION_TOKEN,
     queryType |-> "TIME_RANGE", from |-> from_time, to |-> to_time,
     limit |-> limit]

\* json_payload of the initial request of the appearance fetcher
InitialPayload(query_descriptors, from_time, to_time, limit) ==
    [session |-> settings.SESSION_TOKEN, queryType |-> "TIME_RANGE",
     queryDescriptors |-> query_descriptors, from |-> from_time,
     to |-> to_time, limit |-> limit, scanType |-> "FULL"]

ContinueParamsKeepServer(tok) ==
    [session |-> settings.SESSION_TOKEN, queryType |-> "CONTINUE", token |-> tok,
     serverId |-> Val(server_id)]

\* params / json_payload of a continuation request
ContinueParams(tok) ==
    [session |-> settings.SESSION_TOKEN, queryType |-> "CONTINUE", token |-> tok]

\* Where the job goes when a fetch sequence ends: the face job runs one
\* sequence per gender descriptor.
MoreGenders == job = "face" /\ gender < Len(gender_descriptors)

EndSequence ==
    /\ pc' = IF MoreGenders THEN "fetch_init" ELSE "summary"
    /\ gender' = IF MoreGenders THEN gender + 1 ELSE gender

\* The fetcher is called: the generator's code up to its loop.
FetcherStart ==
    /\ pc = "fetch_init"
    /\ IF settings.AVIGILON_BASE = ""
       THEN /\ EndSequence
            /\ UNCHANGED <<params, page_num>>
       ELSE /\ params' =
                 IF job = "generic"
                 THEN InitialParams(Val(server_id), from_time_iso, to_time_iso,
                                    API_PAGE_SIZE)
                 ELSE InitialPayload(gender_descriptors[gender], from_time_iso,
                                     to_time_iso, API_PAGE_SIZE)
            /\ page_num' = 0
            /\ pc' = "send"
            /\ UNCHANGED gender
    /\ page_number' = IF job = "face" THEN 0 ELSE page_number
    /\ token' = None
    /\ trace' = <<>>
    /\ UNCHANGED <<now, ticks, settings, store, vendor, job, server_id,
                   latest_timestamp_str, from_time_dt, to_time_dt, event_page,
                   events_to_post, total_pages_processed, total_posted_count,
                   total_failed_pages, outcome, calls, failed_last_run, accepted,
                   prev_watermark, rvars, mvars, xvars>>

\* page_num += 1; client.get(url, params=params)
SendRequest ==
    /\ pc = "send"
    /\ page_num' = page_num + 1
    /\ trace' = Append(trace, <<"req", params>>)
    /\ calls' = [calls EXCEPT !.reqs = @ + 1]
    /\ pc' = "await"
    /\ UNCHANGED <<now, ticks, settings, store, vendor, job, server_id,
                   latest_timestamp_str, from_time_dt, to_time_dt, gender,
                   params, token, event_page, events_to_post, page_number,
                   total_pages_processed, total_posted_count,
                   total_failed_pages, outcome, failed_last_run, accepted,
                   prev_watermark, rvars, mvars, xvars>>

TokenStepBreaks(tok) ==
    /\ EndSequence
    /\ UNCHANGED params

\* The check of the token after a response (after the yield, when the page
\* had events): a token continues the sequence, none ends it.
TokenStep(tok) ==
    IF Truthy(tok)
    THEN /\ params' = ContinueParams(Val(tok))
         /\ pc' = "send"
         /\ UNCHANGED gender
    ELSE /\ EndSequence
         /\ UNCHANGED params

\* The vendor accepts a request: a TIME_RANGE query opens a cursor, a
\* CONTINUE query must present the cursor's last token and nothing else.
VendorCursor(p) ==
    IF p.queryType = "TIME_RANGE"
    THEN {[remaining |-> MapRaw(SortedSeq(VendorMatches(p))) \o junk,
           issued |-> 0, last |-> None] : junk \in VendorJunk(p)}
    ELSE IF /\ DOMAIN p = {"session", "queryType", "token"}
            /\ Truthy(vendor.last)
            /\ p.token = Val(vendor.last)
         THEN {vendor}
         ELSE {}

Min(a, b) == IF a <= b THEN a ELSE b

\* The pages the vendor may answer with from cursor c: any number of the
\* remaining events within the limit, and a fresh token whenever events
\* remain; at the end of the results a token is optional.
VendorPages(c, limit) ==
    { [events |-> SubSeq(c.remaining, 1, k),
       rest |-> SubSeq(c.remaining, k + 1, Len(c.remaining)),
       token |-> t] :
        k \in 0 .. Min(limit, Len(c.remaining)),
        t \in IF c.issued < MaxTokens
              THEN {None, Some(c.issued + 1)} ELSE {None} }

VendorAnswers(c) ==
    { a \in VendorPages(c, API_PAGE_SIZE) :
        a.rest # <<>> => Truthy(a.token) }

\* Has the page a record the job can post?  The generic job posts raw
\* records; the face job posts the objects that carry a timestamp.
Postable(events) ==
    \E i \in 1 .. Len(events) :
        job = "generic" \/ (events[i].dict /\ Truthy(events[i].timestamp))

YieldsEvery(events) == TRUE

\* does the fetcher yield this page?
Yields(events) == Truthy(events)

OnRequestErrorRaises ==
    /\ Abort("crashed")
    /\ UNCHANGED <<params, gender>>

\* except httpx.HTTPStatusError / except Exception: log, break
OnRequestError ==
    /\ EndSequence
    /\ UNCHANGED <<params, outcome>>

\* The response arrives: raise_for_status, parse, yield, token.
VendorReply ==
    /\ pc = "await"
    /\ \/ \* a transport error, or a status raise_for_status raises on: break
          /\ trace' = Append(trace, <<"resp", "error", <<>>, None>>)
          /\ OnRequestError
          /\ UNCHANGED <<vendor, token, event_page, calls>>
       \/ \E c \in VendorCursor(params) : \E a \in VendorAnswers(c) :
            /\ vendor' = [remaining |-> a.rest,
                          issued |-> IF Truthy(a.token) THEN c.issued + 1
                                     ELSE c.issued,
                          last |-> a.token]
            /\ token' = a.token
            /\ IF Yields(a.events)
               THEN /\ event_page' = a.events
                    /\ trace' = trace \o << <<"resp", "ok", a.events, a.token>>,
                                            <<"yield", a.events>> >>
                    /\ calls' = [calls EXCEPT
                                    !.yielded = @ + 1,
                                    !.postable = IF Postable(a.events)
                                                 THEN @ + 1 ELSE @]
                    /\ pc' = "page"
                    /\ UNCHANGED <<params, gender, outcome>>
               ELSE /\ trace' = Append(trace, <<"resp", "ok", a.events, a.token>>)
                    /\ TokenStep(a.token)
                    /\ UNCHANGED <<event_page, calls, outcome>>
    /\ UNCHANGED <<now, ticks, settings, store, job, server_id,
                   latest_timestamp_str, from_time_dt, to_time_dt, page_num,
                   events_to_post, page_number, total_pages_processed,
                   total_posted_count, total_failed_pages, failed_last_run, accepted,
                   prev_watermark, rvars, mvars, xvars>>

\* The job asks the generator for its next page: it resumes after the yield.
FetcherResume ==
    /\ pc = "resume"
    /\ TokenStep(token)
    /\ UNCHANGED <<now, ticks, settings, store, vendor, job, server_id,
                   latest_timestamp_str, from_time_dt, to_time_dt, page_num,
                   token, event_page, events_to_post, page_number,
                   total_pages_processed, total_posted_count,
                   total_failed_pages, outcome, calls, failed_last_run, accepted,
                   prev_watermark, rvars, mvars, xvars, trace>>

----------------------------------------------------------------------------
(* The jobs' loop bodies: transform and POST one page *)

StandardizeRenumbered(appearance, sid) ==
    [dict |-> TRUE,
     id |-> appearance.id + 10 * page_number,
     type |-> "CUSTOM_APPEARANCE",
     timestamp |-> appearance.timestamp,
     eventStartTime |-> appearance.timestamp,
     originatingServerId |-> sid,
     originatingEventId |-> sid,
     thisId |-> sid,
     cameraId |-> appearance.deviceGid]

StandardizeDropsCamera(appearance, sid) ==
    [dict |-> TRUE,
     id |-> appearance.id,
     type |-> "CUSTOM_APPEARANCE",
     timestamp |-> appearance.timestamp,
     eventStartTime |-> appearance.timestamp,
     originatingServerId |-> sid,
     originatingEventId |-> sid,
     thisId |-> sid,
     cameraId |-> None]

\* The face job's standardisation of one appearance.
Standardize(appearance, sid) ==
    [dict |-> TRUE,
     id |-> appearance.id,
     type |-> "CUSTOM_APPEARANCE",
     timestamp |-> appearance.timestamp,
     eventStartTime |-> appearance.timestamp,
     originatingServerId |-> sid,
     originatingEventId |-> sid,
     thisId |-> sid,
     cameraId |-> appearance.deviceGid]

\* a transform that drops only the records that are no objects
TransformKeepsUntimed(page, sid) ==
    LET objects == SelectSeq(page, LAMBDA r : r.dict)
    IN  [k \in 1 .. Len(objects) |-> Standardize(objects[k], sid)]

\* events_to_post of a page of the face job
RECURSIVE Transform(_, _)
Transform(page, sid) ==
    IF page = <<>> THEN <<>>
    ELSE LET appearance == Head(page)
             rest == Transform(Tail(page), sid)
         IN  IF ~appearance.dict THEN rest
             ELSE IF ~Truthy(appearance.timestamp) THEN rest
             ELSE <<Standardize(appearance, sid)>> \o rest

\* The body of the POST for the page, empty where the job posts nothing.
PostBody(page) ==
    IF job = "generic" THEN page ELSE Transform(page, Val(server_id))

AfterPostSentNoAwait == "resume"

\* await client.post(post_url, ...): the job waits for the POST's response
AfterPostSent == "await_post"

ProcessPage ==
    /\ pc = "page"
    /\ page_number' = page_number + 1
    /\ total_pages_processed' =
          IF job = "face" THEN total_pages_processed + 1 ELSE total_pages_processed
    /\ IF ~Truthy(event_page) \/ ~Truthy(PostBody(event_page))
       THEN /\ pc' = "resume"
            /\ UNCHANGED <<events_to_post, calls, trace>>
       ELSE /\ events_to_post' = PostBody(event_page)
            /\ trace' = Append(trace, <<"post", PostBody(event_page)>>)
            /\ calls' = [calls EXCEPT !.posts = @ + 1]
            /\ pc' = AfterPostSent
    /\ UNCHANGED <<now, ticks, settings, store, vendor, job, server_id,
                   latest_timestamp_str, from_time_dt, to_time_dt, gender,
                   params, page_num, token, event_page, total_posted_count,
                   total_failed_pages, outcome, failed_last_run, accepted,
                   prev_watermark, rvars, mvars, xvars>>

StoredInPageRawLength(stored_count) == Len(event_page)

\* stored_in_page after a 2xx response with this stored_count (None: absent)
StoredInPage(stored_count) ==
    IF job = "generic"
    THEN IF Truthy(stored_count) THEN Val(stored_count) ELSE Len(event_page)
    ELSE Len(events_to_post)

\* The stored_count of the 2xx response's body: the number of records newly
\* stored, or absent.  The face job does not read the body.
StoredCounts(n) == IF job = "generic" THEN {None, Some(n)} ELSE {Some(n)}

PostFailedHttpOnly(result) == result = "http_error"

\* is the page counted as failed?
PostFailed(result) == result # "ok"

PostResults == {"ok", "http_error", "transport_error"}

RECURSIVE IdsOf(_)
IdsOf(events) ==
    IF events = <<>> THEN {} ELSE {Head(events).id} \cup IdsOf(Tail(events))

\* The source ids of the records of a page that the job posts
RawIdsPosted(page) ==
    {page[i].id : i \in {k \in 1 .. Len(page) : Postable(<<page[k]>>)}}

\* What a stored page adds to events_stored according to the logged summary:
\* the generic job's log line names the stored_count of the response (the
\* page's length where the body has none), the face job's the records sent.
PageCredit(stored_count) ==
    IF job = "face" THEN Len(events_to_post)
    ELSE IF Truthy(stored_count) THEN Val(stored_count) ELSE Len(event_page)

PostReply ==
    /\ pc = "await_post"
    /\ \E result \in PostResults :
         LET after == IF result = "ok" THEN StoreAccept(store, events_to_post)
                      ELSE store
             n == Cardinality(after) - Cardinality(store)
         IN  /\ store' = after
             /\ trace' = Append(trace, <<"post_done",
                                         IF result = "ok" THEN "ok" ELSE "failed">>)
             /\ accepted' = IF result = "ok"
                            THEN accepted \cup RawIdsPosted(event_page)
                            ELSE accepted
             /\ \E stored_count \in StoredCounts(n) :
                  /\ calls' =
                        IF result = "ok"
                        THEN [calls EXCEPT
                                !.stored = @ + n,
                                !.counted = @ /\ Truthy(stored_count),
                                !.credited = @ + PageCredit(stored_count)]
                        ELSE [calls EXCEPT
                                !.failed = @ + 1,
                                !.failed_ids = @ \cup IdsOf(events_to_post)]
                  /\ IF PostFailed(result)
                     THEN /\ total_failed_pages' = total_failed_pages + 1
                          /\ UNCHANGED total_posted_count
                     ELSE /\ total_posted_count' =
                               total_posted_count + StoredInPage(stored_count)
                          /\ UNCHANGED total_failed_pages
    /\ pc' = "resume"
    /\ UNCHANGED <<now, ticks, settings, vendor, job, server_id,
                   latest_timestamp_str, from_time_dt, to_time_dt, gender,
                   params, page_num, token, event_page, events_to_post,
                   page_number, total_pages_processed, outcome,
                   failed_last_run, prev_watermark, rvars, mvars, xvars>>

\* The end-of-run summary is logged and the job returns.
Summary ==
    /\ pc = "summary"
    /\ pc' = "done"
    /\ outcome' = "summary"
    /\ UNCHANGED <<now, ticks, settings, store, vendor, job, locals, calls,
                   failed_last_run, accepted,
                   prev_watermark, rvars, mvars, xvars, trace>>

----------------------------------------------------------------------------

Next ==
    \/ Tick
    \/ StartRun
    \/ GetServers
    \/ ResolveStart
    \/ ComputeWindow
    \/ FetcherStart
    \/ SendRequest
    \/ VendorReply
    \/ FetcherResume
    \/ ProcessPage
    \/ PostReply
    \/ Summary

Spec == Init /\ [][Next]_vars

----------------------------------------------------------------------------
(***************************************************************************)
(* Face identity resolution: app/services/aws_services.py                  *)
(* process_all_faces_in_image is called with one image; every call of an   *)
(* external service is one step of the invocation's frame.                 *)
(***************************************************************************)

\* Detection confidence in hundredths of a percent: 90.0 is 9000.
CONFIDENCE_THRESHOLD == 9000
Confidences == {CONFIDENCE_THRESHOLD - 1, CONFIDENCE_THRESHOLD}

\* What DetectFaces can report for an image: the faces in view, each a
\* person with a detection confidence.
FaceDetails == [person : Persons, Confidence : Confidences]

RECURSIVE SeqsUpTo(_, _)
SeqsUpTo(S, n) ==
    IF n = 0 THEN {<<>>}
    ELSE LET shorter == SeqsUpTo(S, n - 1)
         IN  shorter \cup {Append(q, x) : q \in {p \in shorter : Len(p) = n - 1},
                                          x \in S}

Images == SeqsUpTo(FaceDetails, MaxFaces)

\* the faces detected so far, over all invocations
RECURSIVE Detected(_)
Detected(n) == IF n = 0 THEN 0 ELSE Len(frames[n].detected) + Detected(n - 1)

\* One entry of final_results.  called, created, new_face and search_error
\* are not part of the returned dict: the calls made for the face, the user
\* id generated, the face id indexed and the handled error of the search
\* while it was processed.
Result(status, user_id, face_id, message, reason, f) ==
    [status |-> status, userId |-> user_id, faceId |-> face_id,
     error_message |-> message, failure_reason |-> reason,
     called |-> f.face.called, created |-> f.face.user_id,
     new_face |-> f.face.new_face_id, search_error |-> f.face.search_error]

\* final_results.append(result); the loop goes on to the next face
AppendResult(f, result) ==
    [f EXCEPT !.final_results = Append(@, result),
              !.i = @ + 1,
              !.pc = "face",
              !.face = FaceLocals]

\* the call is noted in the frame of the face being processed
Called(f, name) == [f EXCEPT !.face.called = Append(@, name)]

\* An exception inside the try block of the loop body:
\* except Exception as e: final_results.append({"status": "error", ...})
OnFaceException(f, e) ==
    AppendResult(f, Result("error", None, None, Some(e), None, f))

\* A new invocation starts while others are in progress: none of them runs
\* alone.
Active(f) == f.pc \notin {"idle", "done", "raised"}

Overlapping(r) == \E q \in Runs \ {r} : Active(frames[q])

StartFrame(r, f) ==
    [q \in Runs |->
        IF q = r THEN [f EXCEPT !.alone = ~Overlapping(r)]
        ELSE IF Active(frames[q]) THEN [frames[q] EXCEPT !.alone = FALSE]
        ELSE frames[q]]

CanEnterSingleFlight(r) == frames[r].pc = "idle" /\ ~Overlapping(r)

\* process_all_faces_in_image is entered whenever it is called
CanEnter(r) == frames[r].pc = "idle"

\* 1. rekognition.detect_faces and Image.open
DetectFaces(r) ==
    /\ CanEnter(r)
    /\ \/ \* ClientError: return [{"status": "error", ...}]
          frames' = StartFrame(r, [frames[r] EXCEPT
                        !.pc = "done",
                        !.final_results =
                            <<Result("error", None, None,
                                     Some("DetectFaces API call failed"), None,
                                     frames[r])>>])
       \/ \E detected_face_details \in
                {d \in Images : Len(d) + Detected(NumRuns) <= MaxDetections} :
            IF ~Truthy(detected_face_details)
            THEN \* return []
                 frames' = StartFrame(r, [frames[r] EXCEPT !.pc = "done"])
            ELSE \/ \* Pillow could not open the image bytes
                    frames' = StartFrame(r, [frames[r] EXCEPT
                                  !.pc = "done",
                                  !.detected = detected_face_details,
                                  !.final_results =
                                      <<Result("error", None, None,
                                               Some("Image data is corrupt"),
                                               None, frames[r])>>])
                 \/ frames' = StartFrame(r, [frames[r] EXCEPT
                                  !.pc = "face",
                                  !.detected = detected_face_details,
                                  !.i = 1])
    /\ UNCHANGED <<faces, rek_users, rek_assoc, central_users, uuids, ivars, mvars, xvars>>

PassesGateAbove(detection_confidence) ==
    detection_confidence > CONFIDENCE_THRESHOLD

\* if detection_confidence < 90.0: ... continue
PassesGate(detection_confidence) ==
    ~(detection_confidence < CONFIDENCE_THRESHOLD)

\* 2./3. The loop head, the confidence gate and the crop of one face
GateAndCrop(r) ==
    LET f == frames[r]
    IN  /\ f.pc = "face"
        /\ IF f.i > Len(f.detected)
           THEN \* return final_results
                frames' = [frames EXCEPT ![r].pc = "done"]
           ELSE IF ~PassesGate(f.detected[f.i].Confidence)
           THEN frames' = [frames EXCEPT ![r] =
                    AppendResult(f, Result("skipped_low_confidence", None, None,
                                           None, None, f))]
           ELSE \/ \* the crop is cut and re-encoded
                   frames' = [frames EXCEPT ![r] =
                                 [Called(f, "crop") EXCEPT !.pc = "search"]]
                \/ \* img.crop / save raises: it is outside the try block, the
                   \* exception leaves the function and no list is returned
                   frames' = [frames EXCEPT ![r] =
                                 [Called(f, "crop") EXCEPT !.pc = "raised"]]
        /\ UNCHANGED <<faces, rek_users, rek_assoc, central_users, uuids, ivars, mvars, xvars>>

\* The person whose face the invocation is processing
Person(f) == f.detected[f.i].person

\* Vector service, search(image, threshold): the faces of the collection
\* that are similar to the crop are those of the same person; MaxFaces=1.
SearchResponses(person) ==
    LET similar == {x \in faces : x.person = person}
    IN  IF similar = {} THEN {Some([FaceMatches |-> <<>>])}
        ELSE {Some([FaceMatches |-> <<[FaceId |-> x.FaceId]>>]) : x \in similar}

\* if search_response and search_response.get("FaceMatches"):
HasMatch(search_response) ==
    Truthy(search_response) /\ Truthy(Val(search_response).FaceMatches)

\* A. search_faces_by_image
SearchFaces(r) ==
    LET f == Called(frames[r], "search")
    IN  /\ frames[r].pc = "search"
        /\ \/ \* a ClientError that is re-raised, or any other exception
              frames' = [frames EXCEPT ![r] =
                            OnFaceException(f, "search_faces_by_image raised")]
           \/ \E answer \in {<<None, Some("InvalidParameterException: search")>>}
                            \cup {<<resp, None>> : resp \in SearchResponses(Person(f))} :
                LET search_response == answer[1]
                    search_error == answer[2]
                IN  IF HasMatch(search_response)
                    THEN frames' = [frames EXCEPT ![r] =
                            [f EXCEPT !.pc = "lookup",
                                      !.face.matched_face_id =
                                          Some(Val(search_response).FaceMatches[1].FaceId)]]
                    ELSE frames' = [frames EXCEPT ![r] =
                            [f EXCEPT !.pc = "index",
                                      !.face.search_error = search_error]]
        /\ UNCHANGED <<faces, rek_users, rek_assoc, central_users, uuids, ivars, mvars, xvars>>

\* Identity store, GET /users/by-face-id/{faceId}: the identity records that
\* list the face id, or 404.
UsersByFaceId(face_id) == {u \in central_users : face_id \in u.faceIds}

\* (user_doc, user_error) as get_user_by_face_id_sync returns them
LookupAnswers(face_id) ==
    {<<None, Some("error getting user from Central")>>}
    \cup (IF UsersByFaceId(face_id) = {} THEN {<<None, None>>}
          ELSE {<<Some(u), None>> : u \in UsersByFaceId(face_id)})

MatchResultInconsistent(f, user_doc, user_error) ==
    Result("error", None, None,
           Some("Data inconsistency: FaceId has no user"), None, f)

\* the result of a face that matched the collection
MatchResult(f, user_doc, user_error) ==
    LET matched_face_id == f.face.matched_face_id
    IN  IF Truthy(user_doc)
        THEN Result("matched", Some(Val(user_doc).id), matched_face_id, None,
                    None, f)
        ELSE IF Truthy(user_error)
        THEN Result("error", None, None,
                    Some("Found matching face but failed to look up user"),
                    <<user_error>>, f)
        ELSE Result("error", None, None,
                    Some("Data inconsistency: FaceId has no user"), None, f)

AfterLookupIndexesOrphan(f, user_doc, user_error) ==
    IF ~Truthy(user_doc) /\ ~Truthy(user_error)
    THEN [f EXCEPT !.pc = "index"]
    ELSE AppendResult(f, MatchResult(f, user_doc, user_error))

\* a lookup that failed taken for "no match": the face goes on to index
AfterLookupIndexesOnError(f, user_doc, user_error) ==
    IF ~Truthy(user_doc) /\ Truthy(user_error)
    THEN [f EXCEPT !.pc = "index"]
    ELSE AppendResult(f, MatchResult(f, user_doc, user_error))

\* a matched face without identity record is given one: the creation is
\* taken up again for the matched face id
AfterLookupAdoptsOrphan(f, user_doc, user_error) ==
    IF ~Truthy(user_doc) /\ ~Truthy(user_error)
    THEN [f EXCEPT !.pc = "central",
                   !.face.new_face_id = f.face.matched_face_id,
                   !.face.user_id = Some(uuids + 1),
                   !.face.created_ok = TRUE,
                   !.face.associated_ok = TRUE]
    ELSE AppendResult(f, MatchResult(f, user_doc, user_error))

\* every branch under the match sets result and falls to
\* final_results.append(result): the index branch is the else of the match
AfterLookup(f, user_doc, user_error) ==
    AppendResult(f, MatchResult(f, user_doc, user_error))

\* get_user_by_face_id_sync(matched_face_id)
GetUserByFaceId(r) ==
    LET f == Called(frames[r], "lookup")
    IN  /\ frames[r].pc = "lookup"
        /\ \E answer \in LookupAnswers(Val(f.face.matched_face_id)) :
              frames' = [frames EXCEPT ![r] = AfterLookup(f, answer[1], answer[2])]
        /\ UNCHANGED <<faces, rek_users, rek_assoc, central_users, uuids, ivars, mvars, xvars>>

\* Vector service, index(image): a new face id for the crop, or a response
\* without a usable record, or a rejection.
NewFaceId == Cardinality(faces) + 1

IndexAnswers(person) ==
    { [response |-> Some([FaceRecords |-> <<[FaceId |-> Some(NewFaceId)]>>]),
       error |-> None,
       indexed |-> {[FaceId |-> NewFaceId, person |-> person]}],
      [response |-> Some([FaceRecords |-> <<[FaceId |-> None]>>]),
       error |-> None, indexed |-> {}],
      [response |-> Some([FaceRecords |-> <<>>]),
       error |-> None, indexed |-> {}],
      [response |-> None,
       error |-> Some("InvalidParameterException: index"), indexed |-> {}] }

\* failure_reason = index_error or search_error or "Unknown failure ..."
LowQualityReason(index_error, search_error) ==
    IF Truthy(index_error) THEN index_error
    ELSE IF Truthy(search_error) THEN search_error
    ELSE Some("Unknown failure during search/index.")

RejectedResultIsError(f, index_error) ==
    Result("error", None, None, None,
           <<LowQualityReason(index_error, f.face.search_error)>>, f)

\* else: no face record came back: status skipped_low_quality
RejectedResult(f, index_error) ==
    Result("skipped_low_quality", None, None, None,
           <<LowQualityReason(index_error, f.face.search_error)>>, f)

\* B. index_faces, and the generation of the new user id
IndexFaces(r) ==
    LET f == Called(frames[r], "index")
    IN  /\ frames[r].pc = "index"
        /\ \/ /\ frames' = [frames EXCEPT ![r] =
                               OnFaceException(f, "index_faces raised")]
              /\ UNCHANGED <<faces, uuids>>
           \/ \E answer \in IndexAnswers(Person(f)) :
                LET index_response == answer.response
                IN  /\ faces' = faces \cup answer.indexed
                    /\ IF Truthy(index_response)
                          /\ Truthy(Val(index_response).FaceRecords)
                       THEN LET new_face_id ==
                                    Val(index_response).FaceRecords[1].FaceId
                            IN  IF Truthy(new_face_id)
                                THEN \* user_id = f"user_{uuid.uuid4()}"
                                     /\ uuids' = uuids + 1
                                     /\ frames' = [frames EXCEPT ![r] =
                                          [f EXCEPT !.pc = "create_user",
                                                    !.face.new_face_id = new_face_id,
                                                    !.face.user_id = Some(uuids + 1)]]
                                ELSE /\ UNCHANGED uuids
                                     /\ frames' = [frames EXCEPT ![r] =
                                          AppendResult(f, Result("error", None, None,
                                              Some("Indexing succeeded but no FaceId was returned."),
                                              None, f))]
                       ELSE /\ UNCHANGED uuids
                            /\ frames' = [frames EXCEPT ![r] =
                                 AppendResult(f, RejectedResult(f, answer.error))]
        /\ UNCHANGED <<rek_users, rek_assoc, central_users, ivars, mvars, xvars>>

\* 1. create_rekognition_user(user_id, collection_id)
CreateRekognitionUser(r) ==
    LET f == Called(frames[r], "create_user")
        user_id == Val(f.face.user_id)
    IN  /\ frames[r].pc = "create_user"
        /\ \/ \* rekognition.create_user succeeds: return True, None
              /\ rek_users' = rek_users \cup {user_id}
              /\ frames' = [frames EXCEPT ![r] =
                    [f EXCEPT !.pc = "associate",
                              !.face.created_ok = TRUE,
                              !.face.rek_create_err = None]]
           \/ \* ClientError: return False, error_msg
              /\ UNCHANGED rek_users
              /\ frames' = [frames EXCEPT ![r] =
                    [f EXCEPT !.pc = "associate",
                              !.face.created_ok = FALSE,
                              !.face.rek_create_err = Some("create_user failed")]]
           \/ \* an exception that is no ClientError leaves the helper
              /\ UNCHANGED rek_users
              /\ frames' = [frames EXCEPT ![r] =
                    OnFaceException(f, "create_user raised")]
        /\ UNCHANGED <<faces, rek_assoc, central_users, uuids, ivars, mvars, xvars>>

ShouldAssociateAlways(created_ok) == TRUE

\* if created_ok:
ShouldAssociate(created_ok) == created_ok

\* 2. associate_face_to_user(user_id, new_face_id, collection_id)
AssociateFaceToUser(r) ==
    LET f == frames[r]
        user_id == Val(f.face.user_id)
        new_face_id == Val(f.face.new_face_id)
    IN  /\ f.pc = "associate"
        /\ IF ShouldAssociate(f.face.created_ok)
           THEN \/ /\ rek_assoc' = rek_assoc \cup
                                      {[UserId |-> user_id, FaceId |-> new_face_id]}
                   /\ frames' = [frames EXCEPT ![r] =
                         [Called(f, "associate") EXCEPT
                             !.pc = "central",
                             !.face.associated_ok = TRUE,
                             !.face.rek_assoc_err = None]]
                \/ /\ UNCHANGED rek_assoc
                   /\ frames' = [frames EXCEPT ![r] =
                         [Called(f, "associate") EXCEPT
                             !.pc = "central",
                             !.face.associated_ok = FALSE,
                             !.face.rek_assoc_err = Some("associate_faces failed")]]
                \/ /\ UNCHANGED rek_assoc
                   /\ frames' = [frames EXCEPT ![r] =
                         OnFaceException(Called(f, "associate"),
                                         "associate_faces raised")]
           ELSE \* associated_ok, rek_assoc_err = False, "Skipped due to ..."
                /\ UNCHANGED rek_assoc
                /\ frames' = [frames EXCEPT ![r] =
                      [f EXCEPT !.pc = "central",
                                !.face.associated_ok = FALSE,
                                !.face.rek_assoc_err =
                                    Some("Skipped due to user creation failure")]]
        /\ UNCHANGED <<faces, rek_users, central_users, uuids, ivars, mvars, xvars>>

ShouldCreateCentralUserIfCreated(created_ok, associated_ok) == created_ok

\* if associated_ok:
ShouldCreateCentralUser(created_ok, associated_ok) == associated_ok

NewFaceResultIgnoresCentral(f, central_user_ok, central_err) ==
    IF ~(f.face.created_ok /\ f.face.associated_ok)
    THEN Result("error", None, None,
                Some("Failed to create and associate new user for FaceId"),
                <<f.face.rek_create_err, f.face.rek_assoc_err, central_err>>, f)
    ELSE Result("indexed", f.face.user_id, f.face.new_face_id, None, None, f)

\* the result of a newly indexed face, once the three steps are over
NewFaceResult(f, central_user_ok, central_err) ==
    IF ~(f.face.created_ok /\ f.face.associated_ok /\ central_user_ok)
    THEN Result("error", None, None,
                Some("Failed to create and associate new user for FaceId"),
                <<f.face.rek_create_err, f.face.rek_assoc_err, central_err>>, f)
    ELSE Result("indexed", f.face.user_id, f.face.new_face_id, None, None, f)

FacesAfterCreationRollsBack(central_user_ok, f) ==
    IF f.face.created_ok /\ f.face.associated_ok /\ central_user_ok THEN faces
    ELSE {x \in faces : x.FaceId # Val(f.face.new_face_id)}

\* if not (created_ok and associated_ok and central_user_ok): the branch
\* logs and builds the error result; no call is made to either service
FacesAfterCreation(central_user_ok, f) == faces

\* 3. create_central_user_sync(user_id, new_face_id), and the face's result
CreateCentralUser(r) ==
    LET f == frames[r]
        user_id == Val(f.face.user_id)
        new_face_id == Val(f.face.new_face_id)
    IN  /\ f.pc = "central"
        /\ IF ShouldCreateCentralUser(f.face.created_ok, f.face.associated_ok)
           THEN \/ \* POST /users/ answers 2xx: return True, None
                   /\ central_users' = central_users \cup
                         {[id |-> user_id, faceIds |-> {new_face_id}]}
                   /\ faces' = FacesAfterCreation(TRUE, f)
                   /\ frames' = [frames EXCEPT ![r] =
                         AppendResult(Called(f, "central"),
                             NewFaceResult(Called(f, "central"), TRUE, None))]
                \/ \* the URL is not configured, or the POST fails
                   /\ UNCHANGED central_users
                   /\ faces' = FacesAfterCreation(FALSE, f)
                   /\ frames' = [frames EXCEPT ![r] =
                         AppendResult(Called(f, "central"),
                             NewFaceResult(Called(f, "central"), FALSE,
                                 Some("error creating user in Central")))]
           ELSE \* central_user_ok, central_err = False, "Skipped due to ..."
                /\ UNCHANGED central_users
                /\ faces' = FacesAfterCreation(FALSE, f)
                /\ frames' = [frames EXCEPT ![r] =
                      AppendResult(f, NewFaceResult(f, FALSE,
                          Some("Skipped due to Rekognition failure")))]
        /\ UNCHANGED <<rek_users, rek_assoc, uuids, ivars, mvars, xvars>>

\* The ingestion jobs are not scheduled while the resolver is looked at.
IngestIdle ==
    /\ now = T0
    /\ ticks = 0
    /\ settings = [AVIGILON_BASE |-> "https://vendor",
                   SESSION_TOKEN |-> "session",
                   GENERIC_BACKFILL_START_TIME |-> None,
                   FACE_BACKFILL_START_TIME |-> None]
    /\ store = {}
    /\ vendor = NoCursor
    /\ job = "generic"
    /\ pc = "idle"
    /\ InitLocals
    /\ outcome = "none"
    /\ calls = NoCalls
    /\ failed_last_run = {}
    /\ trace = <<>>
    /\ accepted = {}
    /\ prev_watermark = None

ResolverStart == IngestIdle /\ ResolverInit /\ MediaInit /\ ApartInit

ResolverNext ==
    \/ \E r \in Runs : DetectFaces(r)
    \/ \E r \in Runs : GateAndCrop(r)
    \/ \E r \in Runs : SearchFaces(r)
    \/ \E r \in Runs : GetUserByFaceId(r)
    \/ \E r \in Runs : IndexFaces(r)
    \/ \E r \in Runs : CreateRekognitionUser(r)
    \/ \E r \in Runs : AssociateFaceToUser(r)
    \/ \E r \in Runs : CreateCentralUser(r)

SpecResolver == ResolverStart /\ [][ResolverNext]_vars

----------------------------------------------------------------------------
(* Media enrichment: scheduler/generic_events_media_scheduler.py.           *)
(* enrich_events_job_logic is a coroutine, its position is enrich_pc; the  *)
(* coroutines _process_and_upload_media of a batch run concurrently under  *)
(* asyncio.gather, update_payloads[k] is the state of the k-th of them.    *)

MediaEvents == 1 .. NumMediaEvents

\* System-of-record: an event that needs media.  Event 1 has no camera.
EventDoc(e) ==
    [_id |-> Some(e),
     cameraId |-> IF e = 1 THEN None ELSE Some(e),
     timestamp |-> Some(e)]

\* System-of-record, GET /events-for-enrichment?limit=BATCH_SIZE: events
\* that still miss media, at most limit of them
NeedingMedia == MediaEvents \ enriched

EnrichmentBatches ==
    LET n == Min(BATCH_SIZE, Cardinality(NeedingMedia))
    IN  {SortedSeq(S) : S \in {T \in SUBSET NeedingMedia : Cardinality(T) = n}}

\* the states of one _process_and_upload_media coroutine
InFlight == {"fetching", "uploading"}
Returned == {"payload", "none"}

\* if not all([event_id, camera_id, timestamp]): return None
\* else: await get_media_service(camera_id, timestamp, "jpeg")
NewTask(event) ==
    IF Truthy(event._id) /\ Truthy(event.cameraId) /\ Truthy(event.timestamp)
    THEN [st |-> "fetching", payload |-> None]
    ELSE [st |-> "none", payload |-> None]

\* enrichment_tasks = [_process_and_upload_media(event) for event in ...]
NewTasks(events) == [k \in 1 .. Len(events) |-> NewTask(events[k])]

\* return {"eventId": event_id, "s3ImageKey": s3_key}
Payload(event) == [eventId |-> Val(event._id), s3ImageKey |-> Val(event._id)]

\* valid_updates = [p for p in update_payloads if p is not None]
RECURSIVE ValidUpdates(_)
ValidUpdates(payloads) ==
    IF payloads = <<>> THEN <<>>
    ELSE (IF Truthy(Head(payloads).payload)
          THEN <<Val(Head(payloads).payload)>> ELSE <<>>)
         \o ValidUpdates(Tail(payloads))

\* if len(events_to_process) < BATCH_SIZE: break      (else the loop goes on)
AfterBatch(events) == IF Len(events) < BATCH_SIZE THEN "summary" ELSE "get"

\* The scheduler calls generic_events_media_enrichment_job
StartEnrichment ==
    /\ enrich_pc = "idle"
    /\ enrich_pc' = "get"
    /\ total_enriched_count' = 0
    /\ events_to_process' = <<>>
    /\ update_payloads' = <<>>
    /\ valid_updates' = <<>>
    /\ media_posts' = <<>>
    /\ UNCHANGED <<enriched, bucket, ivars, rvars, xvars>>

\* 1. client.get(EVENTS_FOR_ENRICHMENT_URL), and the creation of the tasks
GetEventsForEnrichment ==
    /\ enrich_pc = "get"
    /\ \/ \* RequestError or HTTPStatusError: break; any other exception
          \* reaches the except of the function
          /\ enrich_pc' = "summary"
          /\ UNCHANGED <<events_to_process, update_payloads, valid_updates,
                         media_posts>>
       \/ \E batch \in EnrichmentBatches :
             LET events == [k \in 1 .. Len(batch) |-> EventDoc(batch[k])]
             IN  /\ events_to_process' = events
                 /\ valid_updates' = <<>>
                 /\ media_posts' = <<>>
                 /\ IF ~Truthy(events)
                    THEN \* No more events to enrich
                         /\ enrich_pc' = "summary"
                         /\ update_payloads' = <<>>
                    ELSE /\ enrich_pc' = "gather"
                         /\ update_payloads' = NewTasks(events)
    /\ UNCHANGED <<total_enriched_count, enriched, bucket, ivars, rvars, xvars>>

\* await get_media_service(camera_id, timestamp, "jpeg") of the k-th task
FetchMedia(k) ==
    /\ k \in 1 .. Len(update_payloads)
    /\ update_payloads[k].st = "fetching"
    /\ \/ \* a 200 response
          update_payloads' = [update_payloads EXCEPT ![k].st = "uploading"]
       \/ \* httpx.RequestError (None is returned), or another status
          update_payloads' = [update_payloads EXCEPT ![k].st = "none"]
       \/ \* an exception that is no httpx.RequestError leaves the coroutine
          update_payloads' = [update_payloads EXCEPT ![k].st = "raised"]
    /\ UNCHANGED <<enrich_pc, events_to_process, valid_updates,
                   total_enriched_count, enriched, bucket, media_posts,
                   ivars, rvars, xvars>>

\* s3_key = await upload_media_to_s3(image_bytes, timestamp) of the k-th task
UploadMedia(k) ==
    /\ k \in 1 .. Len(update_payloads)
    /\ update_payloads[k].st = "uploading"
    /\ \/ /\ bucket' = bucket \cup {Val(events_to_process[k]._id)}
          /\ update_payloads' = [update_payloads EXCEPT
                ![k] = [st |-> "payload",
                        payload |-> Some(Payload(events_to_process[k]))]]
       \/ \* the upload is skipped or fails: None
          /\ UNCHANGED bucket
          /\ update_payloads' = [update_payloads EXCEPT ![k].st = "none"]
    /\ UNCHANGED <<enrich_pc, events_to_process, valid_updates,
                   total_enriched_count, enriched, media_posts, ivars, rvars, xvars>>

GatherDoneAtFirst(tasks) == \E k \in 1 .. Len(tasks) : tasks[k].st \in Returned

\* await asyncio.gather(*enrichment_tasks) returns once every task has
GatherDone(tasks) == \A k \in 1 .. Len(tasks) : tasks[k].st \in Returned

\* 2. update_payloads = await asyncio.gather(...), valid_updates
GatherReturns ==
    /\ enrich_pc = "gather"
    /\ GatherDone(update_payloads)
    /\ valid_updates' = ValidUpdates(update_payloads)
    /\ enrich_pc' = IF ~Truthy(ValidUpdates(update_payloads))
                    THEN AfterBatch(events_to_process)
                    ELSE "post"
    /\ UNCHANGED <<events_to_process, update_payloads, total_enriched_count,
                   enriched, bucket, media_posts, ivars, rvars, xvars>>

\* gather is called without return_exceptions: the first exception of a task
\* is raised in the job, reaches `except Exception` of the function, and the
\* tasks still running are cancelled when asyncio.run ends
GatherRaises ==
    /\ enrich_pc = "gather"
    /\ \E k \in 1 .. Len(update_payloads) : update_payloads[k].st = "raised"
    /\ update_payloads' =
          [k \in 1 .. Len(update_payloads) |->
              IF update_payloads[k].st \in InFlight
              THEN [update_payloads[k] EXCEPT !.st = "cancelled"]
              ELSE update_payloads[k]]
    /\ enrich_pc' = "summary"
    /\ UNCHANGED <<events_to_process, valid_updates, total_enriched_count,
                   enriched, bucket, media_posts, ivars, rvars, xvars>>

\* 3. client.post(UPDATE_EVENTS_MEDIA_URL, json={"updates": valid_updates})
PostMediaUpdates ==
    /\ enrich_pc = "post"
    /\ media_posts' = Append(media_posts, valid_updates)
    /\ \/ \* 2xx: updated_count = ...get("updated_count", len(valid_updates))
          /\ enriched' = enriched \cup
                {valid_updates[k].eventId : k \in 1 .. Len(valid_updates)}
          /\ total_enriched_count' = total_enriched_count + Len(valid_updates)
          /\ enrich_pc' = AfterBatch(events_to_process)
       \/ \* httpx.HTTPStatusError: logged
          /\ UNCHANGED <<enriched, total_enriched_count>>
          /\ enrich_pc' = AfterBatch(events_to_process)
       \/ \* a timeout or another exception reaches the except of the function
          /\ UNCHANGED <<enriched, total_enriched_count>>
          /\ enrich_pc' = "summary"
    /\ UNCHANGED <<events_to_process, update_payloads, valid_updates, bucket,
                   ivars, rvars, xvars>>

\* logger.info("--- Media Enrichment Summary ---"), and the job returns
EnrichmentSummary ==
    /\ enrich_pc = "summary"
    /\ enrich_pc' = "idle"
    /\ UNCHANGED <<events_to_process, update_payloads, valid_updates,
                   total_enriched_count, enriched, bucket, media_posts,
                   ivars, rvars, xvars>>

MediaStart == IngestIdle /\ ResolverInit /\ MediaInit /\ ApartInit

MediaNext ==
    \/ StartEnrichment
    \/ GetEventsForEnrichment
    \/ \E k \in 1 .. BATCH_SIZE : FetchMedia(k)
    \/ \E k \in 1 .. BATCH_SIZE : UploadMedia(k)
    \/ GatherReturns
    \/ GatherRaises
    \/ PostMediaUpdates
    \/ EnrichmentSummary

SpecMedia == MediaStart /\ [][MediaNext]_vars

\* The event loop runs every coroutine that can go on, and every external
\* call returns or times out.
MediaFairness ==
    /\ WF_vars(StartEnrichment)
    /\ WF_vars(GetEventsForEnrichment)
    /\ \A k \in 1 .. BATCH_SIZE : WF_vars(FetchMedia(k)) /\ WF_vars(UploadMedia(k))
    /\ WF_vars(GatherReturns)
    /\ WF_vars(GatherRaises)
    /\ WF_vars(PostMediaUpdates)
    /\ WF_vars(EnrichmentSummary)

SpecMediaFair == SpecMedia /\ MediaFairness

----------------------------------------------------------------------------
(* Reading the trace of the current fetch sequence *)

Idx == 1 .. Len(trace)
Kind(i) == trace[i][1]
ReqIdx == {i \in Idx : Kind(i) = "req"}
RespIdx == {i \in Idx : Kind(i) = "resp"}
YieldIdx == {i \in Idx : Kind(i) = "yield"}
PostIdx == {i \in Idx : Kind(i) = "post"}
FailedIdx == {i \in Idx : Kind(i) = "post_done" /\ trace[i][2] = "failed"}
StoredIdx == {i \in Idx : Kind(i) = "post_done" /\ trace[i][2] = "ok"}
\* the last response before position j
RespBefore(j) == CHOOSE k \in RespIdx : k < j /\ \A m \in RespIdx : m < j => m <= k
IsoZ(dt) == [dt |-> dt, tz |-> "Z"]
MinusMs(dt, n) ==
    IF dt.ms - n < 0 THEN Dt(dt.day - 1, dt.ms - n + MsPerDay)
    ELSE Dt(dt.day, dt.ms - n)
Watermark == Val(latest_timestamp_str).dt

----------------------------------------------------------------------------
(* C1: in a run without manual override in which the system-of-record
   reported the latest timestamp W and the window's end is T: if
   W >= T - 1ms the run ends as "up to date" without a vendor request and
   without a POST; otherwise the run goes on to fetch, and the search it
   issues has from = W + 1ms and to = T. *)
C1_WatermarkWindow ==
    (~Truthy(ManualStart) /\ Truthy(latest_timestamp_str) /\ Truthy(to_time_dt)) =>
        IF DtGE(Watermark, MinusMs(Val(to_time_dt), 1))
        THEN /\ pc = "done"
             /\ outcome = "up_to_date"
             /\ calls.reqs = 0
             /\ calls.posts = 0
        ELSE /\ outcome \in {"running", "summary"}
             /\ pc \in {"summary", "done"} => calls.reqs >= 1
             /\ trace # <<>> =>
                  /\ Kind(1) = "req"
                  /\ trace[1][2].queryType = "TIME_RANGE"
                  /\ trace[1][2].from = IsoZ(PlusMs(Watermark, 1))
                  /\ trace[1][2].to = IsoZ(Val(to_time_dt))

\* W = T - 1ms exactly, and the run was a no-op
C1_Witness ==
    /\ ~Truthy(ManualStart)
    /\ Truthy(latest_timestamp_str)
    /\ Truthy(to_time_dt)
    /\ Watermark = MinusMs(Val(to_time_dt), 1)
    /\ outcome = "up_to_date"

\* W = T - 2ms, and the search was issued
C1_WitnessFetch ==
    /\ ~Truthy(ManualStart)
    /\ Truthy(latest_timestamp_str)
    /\ Truthy(to_time_dt)
    /\ Watermark = MinusMs(Val(to_time_dt), 2)
    /\ calls.reqs >= 1

(* C2: the events of a page whose POST failed lie in the window of the next
   run: its from_time, the stored latest timestamp + 1ms, is not after them. *)
C2_FailedPageInNextWindow ==
    (pc = "bounds" /\ ~Truthy(ManualStart)) =>
        \A e \in failed_last_run :
            DtLE(PlusMs(Val(from_time_dt), 1), EventTime(e))

(* C3 as stated: after a page's POST failed, every page the fetcher yields
   later is posted, and failed_pages is the number of failed POSTs. *)
C3_EveryLaterPagePosted ==
    /\ \A i \in FailedIdx : \A j \in YieldIdx :
         i < j => IF j = Len(trace) THEN pc = "page" ELSE Kind(j + 1) = "post"
    /\ total_failed_pages = calls.failed

(* C3, amended: a failed POST does not stop the run: the sequence goes on as
   the failed page's token says, every page yielded later that has a
   postable record is posted (a page without one is skipped), failed_pages
   is the number of failed POSTs, and the run ends with its summary. *)
C3_FailureIsolated ==
    /\ \A i \in FailedIdx : \A j \in YieldIdx :
         i < j =>
            IF Postable(trace[j][2])
            THEN IF j = Len(trace) THEN pc = "page" ELSE Kind(j + 1) = "post"
            ELSE j = Len(trace) \/ Kind(j + 1) = "req"
    /\ \A i \in FailedIdx :
         IF Truthy(trace[RespBefore(i)][4])
         THEN IF i = Len(trace) THEN pc \in {"resume", "send"}
              ELSE Kind(i + 1) = "req"
         ELSE i = Len(trace) /\ pc \in {"resume", "fetch_init", "summary", "done"}
    /\ total_failed_pages = calls.failed
    /\ (pc = "done" /\ calls.posts > 0) => outcome = "summary"

\* a page failed, a later page of the same sequence was stored, the run ended
C3_Witness ==
    /\ pc = "done"
    /\ outcome = "summary"
    /\ total_failed_pages = 1
    /\ \E i \in FailedIdx : \E j \in StoredIdx : i < j

(* C4: in a fetch sequence without request errors, a response is followed
   by a further request exactly if it carried a token: after a response
   without a token no request is made, and the sequence does not end on a
   response with a token, whether or not it had events. *)
NoRequestError == \A i \in RespIdx : trace[i][2] = "ok"

C4_ContinuesIffToken ==
    NoRequestError =>
        \A i \in RespIdx :
            LET later == {j \in ReqIdx : j > i}
            IN  IF Truthy(trace[i][4])
                THEN \/ \E j \in later :
                          /\ trace[j][2].queryType = "CONTINUE"
                          /\ \A k \in RespIdx : ~(i < k /\ k < j)
                     \/ /\ pc \in {"page", "await_post", "resume", "send"}
                        /\ \A k \in RespIdx : k <= i
                ELSE later = {}

\* an empty page with a token was followed by a request, and the sequence
\* ended after the first response without a token
C4_Witness ==
    /\ pc = "summary"
    /\ NoRequestError
    /\ \E i \in RespIdx : trace[i][3] = <<>> /\ Truthy(trace[i][4])
    /\ Cardinality(ReqIdx) = 3

C6_ContinuationCarriesLastToken ==
    \A j \in ReqIdx :
        LET p == trace[j][2]
        IN  IF j = 1
            THEN p.queryType = "TIME_RANGE"
            ELSE /\ p.queryType = "CONTINUE"
                 /\ DOMAIN p \cap {"serverId", "from", "to", "limit"} = {}
                 /\ "token" \in DOMAIN p
                 /\ \E k \in RespIdx : k < j
                 /\ Truthy(trace[RespBefore(j)][4])
                 /\ p.token = Val(trace[RespBefore(j)][4])

\* two continuation requests, each with the token of the response before it
C6_Witness ==
    \E i, j \in ReqIdx :
        /\ 1 < i /\ i < j
        /\ trace[i][2].token # trace[j][2].token
        /\ "serverId" \in DOMAIN trace[1][2]

(* C7: a failed vendor request is the last call of its fetch sequence: no
   further request follows it; the pages posted before it are still in the
   system-of-record; and the run does not abort, it ends with its summary. *)
StoredIds == {r.id : r \in store}

C7_RequestErrorEndsSequence ==
    /\ \A i \in RespIdx :
         trace[i][2] = "error" =>
            /\ i = Len(trace)
            /\ pc \in {"fetch_init", "summary", "done"}
            /\ outcome \in {"running", "summary"}
            /\ pc = "done" => outcome = "summary"
    /\ \A i \in StoredIdx : IdsOf(trace[i - 1][2]) \subseteq StoredIds

\* the request for a later page failed after a page was stored; the run ended
C7_Witness ==
    /\ pc = "done"
    /\ outcome = "summary"
    /\ trace # <<>>
    /\ Kind(Len(trace)) = "resp"
    /\ trace[Len(trace)][2] = "error"
    /\ StoredIdx # {}

(* C8: when the server enumeration fails (an exception, no response, a
   status other than 200, an empty server list, a first server without id)
   or the latest-timestamp query fails, the run has ended without a vendor
   search and without a POST. *)
ServersFailed ==
    /\ calls.servers.called
    /\ \/ calls.servers.raised
       \/ ~Truthy(calls.servers.resp)
       \/ Val(calls.servers.resp).status_code # 200
       \/ Val(calls.servers.resp).servers = <<>>
       \/ ~Truthy(Val(calls.servers.resp).servers[1].id)

C8_FailFast ==
    (ServersFailed \/ calls.latest_ts = "error") =>
        /\ pc = "done"
        /\ outcome \in {"aborted_servers", "aborted_window"}
        /\ calls.reqs = 0
        /\ calls.posts = 0
        /\ trace = <<>>

\* the servers response had status 503, with a server that has an id
C8_Witness ==
    /\ pc = "done"
    /\ calls.servers.called
    /\ Truthy(calls.servers.resp)
    /\ Val(calls.servers.resp).status_code # 200
    /\ Val(calls.servers.resp).servers # <<>>
    /\ Truthy(Val(calls.servers.resp).servers[1].id)

\* the latest-timestamp query failed
C8_WitnessWatermark == pc = "done" /\ calls.latest_ts = "error"

(* C9 as stated: without a stored timestamp and without override, the search
   starts at the current time minus DEFAULT_BACKFILL_DAYS. *)
NoWatermarkRun ==
    /\ ~Truthy(ManualStart)
    /\ calls.latest_ts = "ok"
    /\ ~Truthy(latest_timestamp_str)

C9_BackfillFromNow ==
    (NoWatermarkRun /\ trace # <<>>) =>
        trace[1][2].from =
            IsoZ(MinusDays(Val(calls.backfill_now), DEFAULT_BACKFILL_DAYS))

(* C9, amended: without a stored timestamp and without override, the search
   starts at the time the missing timestamp was observed, minus
   DEFAULT_BACKFILL_DAYS, plus the 1 ms buffer; it ends at the time read
   afterwards, and it is always issued. *)
C9_BackfillFromNowPlusBuffer ==
    NoWatermarkRun =>
        /\ trace # <<>> =>
             /\ trace[1][2].queryType = "TIME_RANGE"
             /\ trace[1][2].from =
                  IsoZ(PlusMs(MinusDays(Val(calls.backfill_now),
                                        DEFAULT_BACKFILL_DAYS), 1))
             /\ trace[1][2].to = IsoZ(Val(to_time_dt))
        /\ outcome # "up_to_date"
        /\ pc \in {"summary", "done"} => calls.reqs >= 1

\* a backfill search was issued, and time had passed before the window's end
C9_Witness ==
    /\ NoWatermarkRun
    /\ trace # <<>>
    /\ Val(to_time_dt) # Val(calls.backfill_now)

(* C10: at most one vendor request is in flight; a request is followed by
   its response before anything else happens; a yielded page is posted (or
   skipped) and its POST has finished before the next request is made; so
   pages are posted in the order they were fetched. *)
C10_Sequential ==
    /\ Cardinality(ReqIdx) - Cardinality(RespIdx) = IF pc = "await" THEN 1 ELSE 0
    /\ \A j \in ReqIdx :
         IF j = Len(trace) THEN pc = "await" ELSE Kind(j + 1) = "resp"
    /\ \A j \in YieldIdx :
         j < Len(trace) => Kind(j + 1) \in {"post", "req"}
    /\ \A j \in PostIdx :
         /\ Kind(j - 1) = "yield"
         /\ IdsOf(trace[j][2]) \subseteq IdsOf(trace[j - 1][2])
         /\ IF j = Len(trace) THEN pc = "await_post"
            ELSE Kind(j + 1) = "post_done"
    /\ \A j \in Idx :
         Kind(j) = "post_done" => (j = Len(trace) \/ Kind(j + 1) = "req")

\* the third request is in flight after two pages were posted
C10_Witness ==
    /\ pc = "await"
    /\ Cardinality(ReqIdx) = 3
    /\ Cardinality(PostIdx) = 2

----------------------------------------------------------------------------
\* pages_processed of the summary
PagesProcessed == IF job = "face" THEN total_pages_processed ELSE page_number

(* C11 as stated: at the end of a run in which every 2xx response carried a
   stored_count, events_stored equals the sum of the stored_count values the
   system-of-record returned for the pages whose POST succeeded, and
   pages_processed equals the number of pages taken from the fetcher. *)
C11_EventsStoredIsStoredCountSum ==
    (outcome = "summary" /\ calls.counted) =>
        /\ total_posted_count = calls.stored
        /\ PagesProcessed = calls.yielded

(* C11: at the end of a run, events_stored equals the sum over the pages
   whose POST succeeded of: in the generic job the stored_count returned
   (the page's length where the response has none), in the face job the
   number of records posted, whatever the store counted; failed pages add
   nothing, failed_pages is their number, and pages_processed equals the
   number of pages taken from the fetcher. *)
C11_SummaryCounts ==
    outcome = "summary" =>
        /\ total_posted_count = calls.credited
        /\ (job = "generic" /\ calls.counted) => total_posted_count = calls.stored
        /\ total_failed_pages = calls.failed
        /\ PagesProcessed = calls.yielded

\* a face run has ended in which a page failed and the store counted fewer
\* records than the run reports (it had some of them already)
C11_Witness ==
    /\ outcome = "summary"
    /\ job = "face"
    /\ calls.failed >= 1
    /\ calls.stored < total_posted_count
    /\ PagesProcessed >= 2

----------------------------------------------------------------------------
(* C12: when the job posts a page all of whose records the system-of-record
   has accepted before (in this run or an earlier one) and the POST
   succeeds, the store's set of records, and so its count, is unchanged. *)
C12_RepostLeavesStore ==
    [][(/\ pc = "await_post"
        /\ pc' = "resume"
        /\ trace'[Len(trace')] = <<"post_done", "ok">>
        /\ RawIdsPosted(event_page) \subseteq accepted)
       => (store' = store /\ Cardinality(store') = Cardinality(store))]_vars

\* a run has posted pages successfully and the store, which held their
\* records already, has stored nothing new
C12_Witness ==
    /\ pc = "resume"
    /\ trace[Len(trace)] = <<"post_done", "ok">>
    /\ calls.failed = 0
    /\ calls.stored = 0
    /\ Cardinality(store) >= 2
    /\ RawIdsPosted(event_page) \subseteq {r.id : r \in store}

----------------------------------------------------------------------------
\* the raw records of a page that the face job's transform keeps
KeptRecords(page) ==
    SelectSeq(page, LAMBDA r : r.dict /\ Truthy(r.timestamp))

(* C13: in the face job every posted body holds, in order, one record per
   raw record of the page that is an object with a timestamp, and the posted
   record has the raw record's source id and timestamp and carries the raw
   deviceGid (None where the raw record has none) as its cameraId. *)
C13_TransformLossless ==
    job = "face" =>
        \A j \in PostIdx :
            LET raw == KeptRecords(trace[j - 1][2])
                body == trace[j][2]
            IN  /\ Kind(j - 1) = "yield"
                /\ Len(body) = Len(raw)
                /\ \A k \in 1 .. Len(body) :
                      /\ body[k].id = raw[k].id
                      /\ body[k].timestamp = raw[k].timestamp
                      /\ body[k].cameraId = raw[k].deviceGid

\* a page with a record the transform drops was posted, and its first
\* record carries a camera reference
C13_Witness ==
    /\ job = "face"
    /\ \E j \in PostIdx :
          /\ Len(trace[j - 1][2]) > Len(trace[j][2])
          /\ Truthy(trace[j][2][1].cameraId)
          /\ trace[j][2][1].cameraId = trace[j - 1][2][1].deviceGid

----------------------------------------------------------------------------
(* C14: in a run without manual override, a vendor request is made only
   after the run's latest-timestamp GET has answered, the value the run
   works with is the one the system-of-record holds, and it is not less than
   the value the last run before it read; the run changes the store only by
   the POST of a page, and no step lowers the store's latest timestamp. *)
C14_ReadBeforeFetch ==
    ~Truthy(ManualStart) =>
        /\ (calls.reqs >= 1) => (calls.latest_ts = "ok")
        /\ (pc = "bounds" /\ Truthy(latest_timestamp_str)) =>
              (Some(Watermark) = LatestTimestamp(store))
        /\ (pc = "bounds" /\ ~Truthy(latest_timestamp_str)) => (store = {})
        /\ (pc = "bounds" /\ Truthy(prev_watermark)) =>
              (/\ Truthy(latest_timestamp_str)
               /\ DtGE(Watermark, Val(prev_watermark)))

C14_StoreOnlyGrowsByPost ==
    /\ (store' # store) =>
          (pc = "await_post" /\ store' = StoreAccept(store, events_to_post))
    /\ Truthy(LatestTimestamp(store)) =>
          (/\ Truthy(LatestTimestamp(store'))
           /\ DtGE(Val(LatestTimestamp(store')), Val(LatestTimestamp(store))))

C14_WatermarkOwnedByStore ==
    []C14_ReadBeforeFetch /\ [][C14_StoreOnlyGrowsByPost]_vars

\* a run has read a watermark later than the one the run before it read
C14_Witness ==
    /\ ~Truthy(ManualStart)
    /\ pc = "bounds"
    /\ Truthy(prev_watermark)
    /\ Truthy(latest_timestamp_str)
    /\ Watermark # Val(prev_watermark)

----------------------------------------------------------------------------
(* Reading the resolver's frames *)

\* the faces an invocation has resolved in its loop: final_results[k] is the
\* result of detected[k] (i = 0: the loop was never entered, the one result
\* is that of the image)
Resolved(r) ==
    {k \in 1 .. Len(frames[r].final_results) : frames[r].i >= 1}
ResultOf(r, k) == frames[r].final_results[k]
\* is the invocation processing a face (past the gate)?
InFace(r) ==
    frames[r].pc \in {"search", "lookup", "index", "create_user", "associate",
                      "central", "raised"}
BelowThreshold(r, k) == frames[r].detected[k].Confidence < CONFIDENCE_THRESHOLD
Range(q) == {q[n] : n \in 1 .. Len(q)}

(* C15: a face whose detection confidence is below 90.0 gets the result
   skipped_low_confidence and no call at all is made for it; a face whose
   confidence is 90.0 or more never gets that result: it is cropped, and
   once the crop is made the vector search is the next call. *)
C15_ConfidenceGate ==
    \A r \in Runs :
        /\ \A k \in Resolved(r) :
              IF BelowThreshold(r, k)
              THEN /\ ResultOf(r, k).status = "skipped_low_confidence"
                   /\ ResultOf(r, k).called = <<>>
              ELSE /\ ResultOf(r, k).status # "skipped_low_confidence"
                   /\ Len(ResultOf(r, k).called) >= 2
                   /\ ResultOf(r, k).called[1] = "crop"
                   /\ ResultOf(r, k).called[2] = "search"
        /\ InFace(r) =>
              /\ ~BelowThreshold(r, frames[r].i)
              /\ frames[r].face.called[1] = "crop"
              /\ (Len(frames[r].face.called) >= 2) =>
                    (frames[r].face.called[2] = "search")

\* one image: a face at exactly 90.0 was resolved to a new identity, a face
\* just below was skipped
C15_Witness ==
    \E r \in Runs :
        /\ Len(frames[r].final_results) = 2
        /\ Len(frames[r].detected) = 2
        /\ frames[r].detected[1].Confidence = CONFIDENCE_THRESHOLD
        /\ ResultOf(r, 1).status = "indexed"
        /\ BelowThreshold(r, 2)
        /\ ResultOf(r, 2).status = "skipped_low_confidence"

----------------------------------------------------------------------------
\* the step of invocation r in which the identity lookup answers
LookupStep(r) == frames[r].pc = "lookup" /\ frames'[r].pc = "face"
LastResult(f) == f.final_results[Len(f.final_results)]

C16_MatchedResults ==
    \A r \in Runs : \A k \in Resolved(r) :
        (ResultOf(r, k).status = "matched") =>
            /\ ResultOf(r, k).called = <<"crop", "search", "lookup">>
            /\ \E u \in central_users :
                  /\ ResultOf(r, k).userId = Some(u.id)
                  /\ Val(ResultOf(r, k).faceId) \in u.faceIds
            /\ \E x \in faces : ResultOf(r, k).faceId = Some(x.FaceId)

C16_LookupStep ==
    \A r \in Runs :
        LookupStep(r) =>
            LET res == LastResult(frames'[r])
                fid == Val(frames[r].face.matched_face_id)
            IN  /\ UNCHANGED <<faces, rek_users, rek_assoc, central_users, uuids>>
                /\ res.called = <<"crop", "search", "lookup">>
                /\ \/ /\ res.status = "matched"
                      /\ res.faceId = Some(fid)
                      /\ \E u \in UsersByFaceId(fid) : res.userId = Some(u.id)
                   \/ /\ res.status = "error"
                      /\ \/ UsersByFaceId(fid) = {}
                         \/ res.failure_reason =
                               <<Some("error getting user from Central")>>

(* C16: when the vector search has matched a face, the lookup's step changes
   nothing in either service and ends the face: with the owning identity
   found, and unless the lookup itself failed, the result is matched with
   that identity's id and the matched face id; and every matched result was
   reached by crop, search and lookup alone, without index or any
   identity-creation call. *)
C16_MatchNeverIndexes ==
    []C16_MatchedResults /\ [][C16_LookupStep]_vars

\* a face was matched to the identity that an earlier face created
C16_Witness ==
    \E r \in Runs : \E k \in Resolved(r) :
        /\ ResultOf(r, k).status = "matched"
        /\ \E q \in Runs : \E j \in Resolved(q) :
              /\ ResultOf(q, j).status = "indexed"
              /\ ResultOf(q, j).userId = ResultOf(r, k).userId

----------------------------------------------------------------------------
\* The identity-creation calls of a call log, in the order they were made
CreationSteps == <<"create_user", "associate", "central">>
CreationCalls(called) == SelectSeq(called, LAMBDA c : c \in Range(CreationSteps))
IsPrefix(p, q) == Len(p) <= Len(q) /\ SubSeq(q, 1, Len(p)) = p

\* Every face an invocation has worked on, with its call log, the user id
\* generated and the face id indexed for it: the resolved faces and the ones
\* in progress.
ResolvedFaces ==
    UNION {{ResultOf(r, k) : k \in 1 .. Len(frames[r].final_results)} : r \in Runs}
FaceLogs ==
    {[called |-> e.called, user |-> e.created, face |-> e.new_face] :
        e \in ResolvedFaces}
    \cup {[called |-> frames[r].face.called, user |-> frames[r].face.user_id,
           face |-> frames[r].face.new_face_id] : r \in {q \in Runs : InFace(q)}}
Link(user, face) == [UserId |-> Val(user), FaceId |-> Val(face)]

(* C17: for every face, the identity-creation calls made so far are an
   initial part of: create identity, associate, create the record in the
   system-of-record; they follow crop, search and index directly; associate
   is called only once the identity exists in the vector service, and the
   system-of-record only once the face is associated with it. *)
C17_CreationInOrder ==
    \A e \in FaceLogs :
        LET steps == CreationCalls(e.called)
        IN  /\ IsPrefix(steps, CreationSteps)
            /\ (steps # <<>>) =>
                  (/\ e.called = <<"crop", "search", "index">> \o steps
                   /\ Truthy(e.user)
                   /\ \E x \in faces : e.face = Some(x.FaceId))
            /\ (Len(steps) >= 2) => (Val(e.user) \in rek_users)
            /\ (Len(steps) >= 3) => (Link(e.user, e.face) \in rek_assoc)

\* one face's creation stopped after the failed first step, another face's
\* went through all three
C17_Witness ==
    /\ \E e \in ResolvedFaces :
          /\ e.status = "error"
          /\ e.called = <<"crop", "search", "index", "create_user">>
          /\ Val(e.created) \notin rek_users
    /\ \E e \in ResolvedFaces :
          /\ e.status = "indexed"
          /\ CreationCalls(e.called) = CreationSteps

----------------------------------------------------------------------------
(* C18: a face for which associate was called and did not associate the new
   face with the new identity has an error result that carries the
   association's error (as the second of the three step errors, or as the
   message of the exception it raised); the system-of-record was not called
   for it and holds no record of that identity. *)
C18_AssociationFailure ==
    \A e \in ResolvedFaces :
        ("associate" \in Range(e.called) /\ Link(e.created, e.new_face) \notin rek_assoc) =>
            /\ e.status = "error"
            /\ "central" \notin Range(e.called)
            /\ \/ /\ Len(e.failure_reason) = 3
                  /\ e.failure_reason[2] = Some("associate_faces failed")
               \/ e.error_message = Some("associate_faces raised")
            /\ ~\E c \in central_users : c.id = Val(e.created)

\* indexing and create identity succeeded, the association failed with a
\* ClientError and the third step was skipped
C18_Witness ==
    \E e \in ResolvedFaces :
        /\ e.status = "error"
        /\ Len(e.failure_reason) = 3
        /\ e.failure_reason[1] = None
        /\ e.failure_reason[2] = Some("associate_faces failed")
        /\ e.failure_reason[3] = Some("Skipped due to Rekognition failure")
        /\ Val(e.created) \in rek_users
        /\ \E x \in faces : e.new_face = Some(x.FaceId)

----------------------------------------------------------------------------
\* no invocation is in progress and none has overlapped with another
AllOver == \A r \in Runs : ~Active(frames[r])
OneAtATime == \A r \in Runs : frames[r].alone

\* the identity exists in both systems, with a face linked to it in both
InBothSystems(u) ==
    /\ u \in rek_users
    /\ \E c \in central_users :
          /\ c.id = u
          /\ \E fid \in c.faceIds : [UserId |-> u, FaceId |-> fid] \in rek_assoc

\* the face results the callers received: an invocation that raised returned
\* no list, so the results it had appended are lost with it
ReportedFaces ==
    UNION {{ResultOf(r, k) : k \in 1 .. Len(frames[r].final_results)} :
              r \in {q \in Runs : frames[q].pc = "done"}}

IdentitiesConsistent(reported) ==
    /\ \A x \in faces :
          /\ Cardinality({a \in rek_assoc : a.FaceId = x.FaceId}) <= 1
          /\ Cardinality(UsersByFaceId(x.FaceId)) <= 1
    /\ \A u \in rek_users :
          \/ InBothSystems(u)
          \/ \E e \in reported : e.created = Some(u) /\ e.status = "error"
    /\ \A c \in central_users : InBothSystems(c.id)
    /\ \A e \in reported :
          (e.status \in {"matched", "indexed"}) =>
              /\ InBothSystems(Val(e.userId))
              /\ \E c \in central_users :
                    c.id = Val(e.userId) /\ Val(e.faceId) \in c.faceIds
              /\ Link(e.userId, e.faceId) \in rek_assoc

(* C19: after invocations that ran one at a time: no face id is associated
   with two identities in the vector service nor listed by two identity
   records; every identity of the vector service is in both systems, or the
   face it was generated for was reported with an error result; and every
   matched or indexed result names an identity that is in both systems and
   linked to the result's face id. *)
C19_IdentitiesConsistent ==
    (AllOver /\ OneAtATime) => IdentitiesConsistent(ReportedFaces)

\* What holds instead: the same, over the results every invocation computed,
\* returned or not
ComputedIdentitiesConsistent ==
    (AllOver /\ OneAtATime) => IdentitiesConsistent(ResolvedFaces)

\* An identity left in the vector service only, whose error result was
\* appended and then lost when the crop of the next face raised
LostErrorResult ==
    /\ frames[1].pc = "raised"
    /\ frames[1].alone
    /\ frames[2].pc = "idle"
    /\ Len(frames[1].final_results) = 1
    /\ ResultOf(1, 1).status = "error"
    /\ Truthy(ResultOf(1, 1).created)
    /\ Val(ResultOf(1, 1).created) \in rek_users
    /\ central_users = {}

----------------------------------------------------------------------------
\* two identity records whose faces are faces of one person
TwoIdentitiesOnePerson ==
    \E c1 \in central_users : \E c2 \in central_users :
        /\ c1.id # c2.id
        /\ \E x1 \in faces : \E x2 \in faces :
              /\ x1.FaceId \in c1.faceIds
              /\ x2.FaceId \in c2.faceIds
              /\ x1.person = x2.person

\* the steps of invocation r
StepOf(r) ==
    \/ DetectFaces(r)
    \/ GateAndCrop(r)
    \/ SearchFaces(r)
    \/ GetUserByFaceId(r)
    \/ IndexFaces(r)
    \/ CreateRekognitionUser(r)
    \/ AssociateFaceToUser(r)
    \/ CreateCentralUser(r)

(* C20: nothing makes one invocation wait for another: an invocation that
   has not returned can always take its next step, whatever the others are
   doing, and it indexes whenever its own search reported no match.  So two
   overlapping invocations reach the state with two identities for one
   person; while invocations run one at a time, a second identity for a
   person arises only after a search that failed. *)
C20_NoCoordination ==
    /\ \A r \in Runs :
          (frames[r].pc \notin {"done", "raised"}) => ENABLED StepOf(r)
    /\ (TwoIdentitiesOnePerson /\ OneAtATime) =>
          \E e \in ResolvedFaces : Truthy(e.search_error) /\ Truthy(e.new_face)

\* both invocations found no match for the same person's face, both indexed
\* it and both completed the identity creation
C20_Witness ==
    /\ \A r \in Runs :
          /\ frames[r].pc = "done"
          /\ \E k \in Resolved(r) :
                /\ ResultOf(r, k).status = "indexed"
                /\ ResultOf(r, k).called =
                      <<"crop", "search", "index", "create_user", "associate",
                        "central">>
          /\ \A e \in ResolvedFaces : ~Truthy(e.search_error)
    /\ ~OneAtATime
    /\ TwoIdentitiesOnePerson
    /\ Cardinality(central_users) = NumRuns

----------------------------------------------------------------------------
\* the statuses a face's result can carry
TerminalStatuses ==
    {"matched", "indexed", "skipped_low_confidence", "skipped_low_quality",
     "error"}

\* DetectFaces itself failed: the one result is that of the image
DetectFailed(r) ==
    /\ frames[r].pc = "done"
    /\ frames[r].detected = <<>>
    /\ frames[r].final_results # <<>>

\* the list the invocation returned has one terminal result per detected face
OneResultPerFace(r) ==
    /\ Len(frames[r].final_results) = Len(frames[r].detected)
    /\ \A k \in 1 .. Len(frames[r].final_results) :
          ResultOf(r, k).status \in TerminalStatuses

(* C21: an invocation whose detection succeeded always returns: it never
   ends by raising, and the list it returns holds one result per detected
   face, in detection order, each with a terminal status. *)
C21_OneResultPerFace ==
    \A r \in Runs :
        /\ frames[r].pc # "raised"
        /\ (frames[r].pc = "done" /\ ~DetectFailed(r)) => OneResultPerFace(r)

\* What holds instead: while the image opens and no crop raises, the loop
\* appends one terminal result per face it has gone through, in order
OneResultPerFaceInLoop ==
    \A r \in Runs :
        (frames[r].i >= 1) =>
            /\ \A k \in Resolved(r) : ResultOf(r, k).status \in TerminalStatuses
            /\ Len(frames[r].final_results) =
                  (IF frames[r].pc = "done" THEN Len(frames[r].detected)
                   ELSE frames[r].i - 1)

\* the second face's crop raised after the first face was resolved: nothing
\* is returned for either
RaisedAfterFirstFace ==
    \E r \in Runs :
        /\ frames[r].pc = "raised"
        /\ Len(frames[r].detected) = 2
        /\ Len(frames[r].final_results) = 1
        /\ ResultOf(r, 1).status = "indexed"

\* two faces were detected, the image did not open: one result for both
OneResultForTwoFaces ==
    \E r \in Runs :
        /\ frames[r].pc = "done"
        /\ Len(frames[r].detected) = 2
        /\ Len(frames[r].final_results) = 1
        /\ frames[r].i = 0

----------------------------------------------------------------------------
\* The face was indexed and the three creation steps took effect for it: the
\* identity generated for it is in the vector service, associated with the
\* face id, and the system-of-record holds its record with that face id.
\* (User ids are fresh, so only the face's own steps can have done this.)
FullyCreated(e) ==
    /\ Truthy(e.new_face)
    /\ Truthy(e.created)
    /\ \E x \in faces : x.FaceId = Val(e.new_face)
    /\ Val(e.created) \in rek_users
    /\ Link(e.created, e.new_face) \in rek_assoc
    /\ \E c \in central_users :
          c.id = Val(e.created) /\ Val(e.new_face) \in c.faceIds

(* C22: a face's result is indexed exactly when the face was indexed and
   create identity, associate and the system-of-record creation all
   succeeded for it; an indexed result carries the new identity id and the
   new face id, and was reached by crop, search, index and the three steps. *)
C22_IndexedIffAllSucceeded ==
    \A e \in ResolvedFaces :
        /\ (e.status = "indexed") <=> FullyCreated(e)
        /\ (e.status = "indexed") =>
              /\ e.userId = e.created
              /\ e.faceId = e.new_face
              /\ e.called = <<"crop", "search", "index", "create_user",
                              "associate", "central">>

\* one face ended indexed; for another only the system-of-record creation
\* failed, and its result is an error
C22_Witness ==
    /\ \E e \in ResolvedFaces : e.status = "indexed" /\ FullyCreated(e)
    /\ \E e \in ResolvedFaces :
          /\ e.status = "error"
          /\ "central" \in Range(e.called)
          /\ Link(e.created, e.new_face) \in rek_assoc
          /\ ~FullyCreated(e)

----------------------------------------------------------------------------
InconsistencyMessage == Some("Data inconsistency: FaceId has no user")

\* the step of invocation r that follows a vector match
AfterMatchStep(r) == frames[r].pc = "lookup" /\ frames'[r].pc # "lookup"

C23_InconsistentResults ==
    \A e \in ResolvedFaces :
        (e.error_message = InconsistencyMessage) =>
            /\ e.status = "error"
            /\ e.called = <<"crop", "search", "lookup">>
            /\ ~Truthy(e.new_face)
            /\ ~Truthy(e.created)

C23_OrphanStep ==
    \A r \in Runs :
        LET fid == Val(frames[r].face.matched_face_id)
        IN  (AfterMatchStep(r) /\ UsersByFaceId(fid) = {}) =>
                /\ frames'[r].pc = "face"
                /\ frames'[r].i = frames[r].i + 1
                /\ UNCHANGED <<faces, rek_users, rek_assoc, central_users, uuids>>
                /\ LastResult(frames'[r]).status = "error"
                /\ LastResult(frames'[r]).called = <<"crop", "search", "lookup">>
                /\ \/ LastResult(frames'[r]).error_message = InconsistencyMessage
                   \/ LastResult(frames'[r]).failure_reason =
                         <<Some("error getting user from Central")>>

(* C23: after a vector match, when no identity record lists the matched face
   id, the lookup's step ends the face with an error result: the data
   inconsistency when the lookup answered not-found, the lookup's own error
   when it failed; the step calls neither index nor any creation step and
   changes nothing in either service; and every data-inconsistency result
   was reached by crop, search and lookup alone. *)
C23_OrphanFaceIsError ==
    []C23_InconsistentResults /\ [][C23_OrphanStep]_vars

\* a face matched a face id that an earlier, failed creation left without an
\* identity record, and got the data-inconsistency result
C23_Witness ==
    \E e \in ResolvedFaces :
        /\ e.error_message = InconsistencyMessage
        /\ \E d \in ResolvedFaces :
              /\ d.status = "error"
              /\ Truthy(d.new_face)
              /\ UsersByFaceId(Val(d.new_face)) = {}

----------------------------------------------------------------------------
\* the step of invocation r in which index_faces answers
IndexStep(r) == frames[r].pc = "index" /\ frames'[r].pc # "index"

C24_RejectedResults ==
    \A e \in ResolvedFaces :
        (e.status = "skipped_low_quality") =>
            /\ e.called = <<"crop", "search", "index">>
            /\ CreationCalls(e.called) = <<>>
            /\ ~Truthy(e.new_face)
            /\ ~Truthy(e.created)
            /\ Len(e.failure_reason) = 1
            /\ Truthy(e.failure_reason[1])

C24_RejectingIndexStep ==
    \A r \in Runs :
        (IndexStep(r) /\ faces' = faces) =>
            LET res == LastResult(frames'[r])
            IN  /\ frames'[r].pc = "face"
                /\ frames'[r].i = frames[r].i + 1
                /\ UNCHANGED <<rek_users, rek_assoc, central_users, uuids>>
                /\ res.called = <<"crop", "search", "index">>
                /\ \/ res.status = "skipped_low_quality"
                   \/ /\ res.status = "error"
                      /\ res.error_message \in
                            {Some("index_faces raised"),
                             Some("Indexing succeeded but no FaceId was returned.")}

(* C24: after a search without a match, an index step that adds no face to
   the collection ends the face without any identity-creation call and
   without a change to either identity store: with skipped_low_quality,
   unless index_faces raised or answered a record without a face id (error);
   and every skipped_low_quality result was reached by crop, search and index
   alone and carries the reason of the rejection. *)
C24_QualityRejected ==
    []C24_RejectedResults /\ [][C24_RejectingIndexStep]_vars

\* search answered without a match or error, index rejected the crop
C24_Witness ==
    \E e \in ResolvedFaces :
        /\ e.status = "skipped_low_quality"
        /\ ~Truthy(e.search_error)
        /\ e.failure_reason = <<Some("Unknown failure during search/index.")>>

----------------------------------------------------------------------------
\* a face whose identity creation was started and did not go through
CreationFailed(e) ==
    /\ "create_user" \in Range(e.called)
    /\ e.status # "indexed"

C25_FailedCreationsInPlace ==
    \A e \in ResolvedFaces :
        CreationFailed(e) =>
            /\ e.status = "error"
            /\ \E x \in faces : x.FaceId = Val(e.new_face)
            /\ Range(e.called) \subseteq
                  {"crop", "search", "index", "create_user", "associate",
                   "central"}

C25_NothingRemoved ==
    /\ faces \subseteq faces'
    /\ rek_users \subseteq rek_users'
    /\ rek_assoc \subseteq rek_assoc'
    /\ central_users \subseteq central_users'

(* C25: no step of the resolver removes a face from the collection, an
   identity or an association from the vector service, or a record from the
   system-of-record; a face whose identity creation failed has an error
   result, made no call beyond the six of the sequence, and its indexed face
   stays in the collection. *)
C25_NoCompensation ==
    []C25_FailedCreationsInPlace /\ [][C25_NothingRemoved]_vars

\* the creation failed at the third step: face, identity and association are
\* all still there, the record is not
C25_Witness ==
    \E e \in ResolvedFaces :
        /\ CreationFailed(e)
        /\ "central" \in Range(e.called)
        /\ \E x \in faces : x.FaceId = Val(e.new_face)
        /\ Val(e.created) \in rek_users
        /\ Link(e.created, e.new_face) \in rek_assoc
        /\ ~\E c \in central_users : c.id = Val(e.created)

----------------------------------------------------------------------------
(* Reading the media enrichment's state *)

TaskIds == 1 .. Len(update_payloads)
TaskSt(k) == update_payloads[k].st
\* the job is past the gather of the current batch
PastGather == enrich_pc # "gather" /\ update_payloads # <<>>
\* the job has finished with the current batch
BatchClosed == enrich_pc \in {"get", "summary", "idle"} /\ update_payloads # <<>>

\* once the job is past the gather: every task has come to its end, the
\* events that failed contribute nothing and every payload produced is among
\* the batch's updates
Isolated ==
    /\ \A k \in TaskIds : TaskSt(k) \notin InFlight \cup {"cancelled"}
    /\ \A k \in TaskIds :
          (TaskSt(k) \in {"none", "raised"}) =>
              ~\E j \in 1 .. Len(valid_updates) :
                  valid_updates[j].eventId = Val(events_to_process[k]._id)
    /\ \A k \in TaskIds :
          (TaskSt(k) = "payload") =>
              \E j \in 1 .. Len(valid_updates) :
                  valid_updates[j] = Val(update_payloads[k].payload)

(* C26: whatever way an event's task fails (no response, another status, a
   failed upload, an exception), once the job is past the gather of a batch
   the failed events have no payload, every sibling task has run to its end
   and every payload produced is in the batch's valid_updates. *)
C26_FailuresIsolated == PastGather => Isolated

\* What holds instead: the same, as long as no task of the batch raised
IsolatedUnlessRaised ==
    (PastGather /\ \A k \in TaskIds : TaskSt(k) # "raised") => Isolated

\* one task produced its payload, a sibling raised: the job went to its
\* summary without the payload
PayloadLostToSibling ==
    /\ enrich_pc = "summary"
    /\ \E k \in TaskIds : TaskSt(k) = "payload"
    /\ \E k \in TaskIds : TaskSt(k) = "raised"
    /\ valid_updates = <<>>
    /\ media_posts = <<>>

\* one task failed without raising, its sibling's payload was posted
FailureIsolated ==
    /\ enrich_pc = "post"
    /\ \E k \in TaskIds : TaskSt(k) = "none"
    /\ \E k \in TaskIds : TaskSt(k) = "payload"
    /\ Len(valid_updates) = 1

----------------------------------------------------------------------------
\* the POSTs made for the current batch are of the batch's payloads, one per
\* event that produced one, under that event's id
PostsOfBatch ==
    /\ Len(media_posts) <= 1
    /\ \A j \in 1 .. Len(media_posts) :
          /\ media_posts[j] = ValidUpdates(update_payloads)
          /\ media_posts[j] # <<>>
    /\ \A k \in TaskIds :
          (TaskSt(k) = "payload") =>
              Val(update_payloads[k].payload).eventId =
                  Val(events_to_process[k]._id)

(* C27: a batch in which some event produced a payload gets exactly one
   POST, whose updates are the payloads of the events whose fetch and upload
   succeeded, in the batch's order, each under its event's id; a batch in
   which none did gets no POST. *)
C27_OnePostPerBatch ==
    /\ PostsOfBatch
    /\ BatchClosed =>
          (IF \E k \in TaskIds : TaskSt(k) = "payload"
           THEN media_posts = <<ValidUpdates(update_payloads)>>
           ELSE media_posts = <<>>)

\* What holds instead: the same for the batches whose gather returned
OnePostPerGatheredBatch ==
    /\ PostsOfBatch
    /\ (BatchClosed /\ \A k \in TaskIds : TaskSt(k) # "raised") =>
          (IF \E k \in TaskIds : TaskSt(k) = "payload"
           THEN media_posts = <<ValidUpdates(update_payloads)>>
           ELSE media_posts = <<>>)

----------------------------------------------------------------------------
TasksInFlight == {k \in TaskIds : TaskSt(k) \in InFlight}

(* C28: the tasks in flight are tasks of the current batch, one per event at
   most, and there are some only while the job awaits the gather: when the
   job requests the next batch, posts, or ends, none is in flight. *)
C28_BoundedByBatch ==
    /\ Len(update_payloads) = Len(events_to_process)
    /\ Cardinality(TasksInFlight) <= Len(events_to_process)
    /\ (TasksInFlight # {}) => (enrich_pc = "gather")

\* a later batch of the run: all its fetches are in flight at once
C28_Witness ==
    /\ enrich_pc = "gather"
    /\ total_enriched_count > 0
    /\ Len(events_to_process) = BATCH_SIZE
    /\ \A k \in TaskIds : TaskSt(k) = "fetching"

----------------------------------------------------------------------------
(* C30: a run that has started reaches its end-of-run summary. *)
C30_RunReachesSummary == (enrich_pc = "get") ~> (enrich_pc = "summary")

\* a full batch of which no event produced a payload: the loop goes on with
\* the same request
FullBatchWithoutPayload ==
    /\ enrich_pc = "get"
    /\ Len(events_to_process) = BATCH_SIZE
    /\ update_payloads # <<>>
    /\ \A k \in TaskIds : TaskSt(k) = "none"

----------------------------------------------------------------------------
(* Ingestion under fair scheduling: the scheduler keeps invoking the job,
   and every call of a run returns. *)
IngestFairness ==
    /\ WF_vars(StartRun)
    /\ WF_vars(GetServers)
    /\ WF_vars(ResolveStart)
    /\ WF_vars(ComputeWindow)
    /\ WF_vars(FetcherStart)
    /\ WF_vars(SendRequest)
    /\ WF_vars(VendorReply)
    /\ WF_vars(FetcherResume)
    /\ WF_vars(ProcessPage)
    /\ WF_vars(PostReply)
    /\ WF_vars(Summary)

SpecFair == Spec /\ IngestFairness

\* the current run has met a failure: a call that failed, a page whose POST
\* failed, or a record it could not handle
FailureNow ==
    \/ outcome \in {"aborted_servers", "aborted_window", "crashed"}
    \/ calls.failed > 0
    \/ calls.latest_ts = "error"
    \/ ~NoRequestError

\* the current run has searched a time range that holds the event
InWindow(i) ==
    /\ trace # <<>>
    /\ Kind(1) = "req"
    /\ trace[1][2].queryType = "TIME_RANGE"
    /\ InRange(i, trace[1][2])

(* C29: if from some run on no request fails any more, every event whose
   timestamp lies in a window that a run has searched is eventually in the
   system-of-record. *)
C29_EventuallyStored ==
    (<>[]~FailureNow) =>
        \A i \in EventIds : [](InWindow(i) => <>(i \in StoredIds))

----------------------------------------------------------------------------
LookupError == <<Some("error getting user from Central")>>
LookupFailedMessage == Some("Found matching face but failed to look up user")

C38_LookupErrorResults ==
    \A e \in ResolvedFaces :
        (e.failure_reason = LookupError \/ e.error_message = LookupFailedMessage) =>
            /\ e.status = "error"
            /\ e.error_message = LookupFailedMessage
            /\ e.failure_reason = LookupError
            /\ e.called = <<"crop", "search", "lookup">>
            /\ ~Truthy(e.new_face)
            /\ ~Truthy(e.created)
            /\ ~Truthy(e.userId)

C38_LookupErrorStep ==
    \A r \in Runs :
        AfterMatchStep(r) =>
            LET res == LastResult(frames'[r])
                fid == Val(frames[r].face.matched_face_id)
            IN  /\ frames'[r].pc = "face"
                /\ frames'[r].i = frames[r].i + 1
                /\ Len(frames'[r].final_results) =
                       Len(frames[r].final_results) + 1
                /\ UNCHANGED <<faces, rek_users, rek_assoc, central_users, uuids>>
                /\ (res.status # "matched" /\ UsersByFaceId(fid) # {}) =>
                       /\ res.status = "error"
                       /\ res.error_message = LookupFailedMessage
                       /\ res.failure_reason = LookupError

(* C38: after a vector match, the lookup's step always ends the face and
   changes nothing in either service; when the owning identity exists and
   the face is not reported matched, the lookup has failed and the result
   is an error carrying the lookup's failure reason; and every result that
   carries a lookup failure is an error reached by crop, search and lookup
   alone, with no face indexed and no identity created. *)
C38_LookupErrorIsError ==
    []C38_LookupErrorResults /\ [][C38_LookupErrorStep]_vars

\* a face matched the face of an existing identity, the lookup failed, and
\* the face got the error result with the lookup's reason
C38_Witness ==
    \E e \in ResolvedFaces :
        /\ e.failure_reason = LookupError
        /\ e.status = "error"
        /\ \E u \in central_users : \E x \in faces : x.FaceId \in u.faceIds

----------------------------------------------------------------------------
\* the face ids that were indexed for a face whose identity creation failed
OrphanIds ==
    {Val(e.new_face) :
        e \in {d \in ResolvedFaces : Truthy(d.new_face) /\ d.status = "error"}}

\* the orphaned face ids of the person whose face invocation r is processing
OrphansOf(r) ==
    {x \in faces : x.FaceId \in OrphanIds /\ InFace(r) /\ x.person = Person(frames[r])}

\* invocation r appends the result of a face it has cropped
ResolutionEnds(r) ==
    /\ Len(frames'[r].final_results) = Len(frames[r].final_results) + 1
    /\ LastResult(frames'[r]).called # <<>>

OrphanAlwaysInconsistentStep ==
    \A r \in Runs :
        (frames[r].alone /\ ResolutionEnds(r) /\ OrphansOf(r) # {}) =>
            /\ LastResult(frames'[r]).error_message = InconsistencyMessage
            /\ LastResult(frames'[r]).called = <<"crop", "search", "lookup">>
            /\ UNCHANGED <<faces, rek_users, rek_assoc, central_users>>

(* C32: once a face has been indexed and its identity creation has failed,
   every later resolution of the same person's face, by an invocation that
   runs alone, ends in the data-inconsistency error after crop, search and
   lookup, and adds nothing to either service. *)
C32_OrphanAlwaysInconsistent == [][OrphanAlwaysInconsistentStep]_vars

C32_OrphansStay ==
    \A fid \in OrphanIds :
        /\ \E x \in faces : x.FaceId = fid
        /\ UsersByFaceId(fid) = {}
        /\ \A r \in Runs : InFace(r) => frames[r].face.new_face_id # Some(fid)

C32_OrphanMatchStep ==
    \A r \in Runs :
        LET fid == Val(frames[r].face.matched_face_id)
            res == LastResult(frames'[r])
        IN  (AfterMatchStep(r) /\ fid \in OrphanIds) =>
                /\ frames'[r].pc = "face"
                /\ UNCHANGED <<faces, rek_users, rek_assoc, central_users, uuids>>
                /\ res.status = "error"
                /\ res.called = <<"crop", "search", "lookup">>
                /\ ~Truthy(res.new_face) /\ ~Truthy(res.created)
                /\ \/ res.error_message = InconsistencyMessage
                   \/ res.failure_reason = LookupError

C32_SearchStep ==
    \A r \in Runs :
        (frames[r].pc = "search" /\ frames'[r].pc # "search"
            /\ OrphansOf(r) # {}) =>
            \/ /\ frames'[r].pc = "lookup"
               /\ \E x \in faces :
                     /\ x.person = Person(frames[r])
                     /\ frames'[r].face.matched_face_id = Some(x.FaceId)
            \/ /\ frames'[r].pc = "index"
               /\ Truthy(frames'[r].face.search_error)
            \/ /\ frames'[r].pc = "face"
               /\ LastResult(frames'[r]).status = "error"
               /\ LastResult(frames'[r]).called = <<"crop", "search">>

(* C32 (amended): a face id indexed for a face whose identity creation failed
   stays in the collection and never gets an identity record, and no later
   face is given that face id; a later search for the same person that
   answers matches a face of that person, the index branch being reached
   only after a handled search error; and when the match is the orphaned
   face id, the lookup's step ends the face with an error, the data
   inconsistency unless the lookup itself failed, without index or any
   creation call and without a change in either service. *)
C32_OrphanPersists ==
    /\ []C32_OrphansStay
    /\ [][C32_OrphanMatchStep]_vars
    /\ [][C32_SearchStep]_vars

\* the second invocation, started after the first had ended, matched the face
\* id that the first left without identity and got the data inconsistency
C32_Witness ==
    /\ frames[2].alone
    /\ \E k \in Resolved(2) :
          /\ ResultOf(2, k).error_message = InconsistencyMessage
          /\ ResultOf(2, k).called = <<"crop", "search", "lookup">>
    /\ \E j \in Resolved(1) :
          /\ ResultOf(1, j).status = "error"
          /\ Truthy(ResultOf(1, j).new_face)
          /\ Val(ResultOf(1, j).new_face) \in OrphanIds
          /\ faces = {[FaceId |-> Val(ResultOf(1, j).new_face), person |-> 1]}
    /\ central_users = {}

\* a later face of the same person, whose search failed with a handled
\* error, was indexed again and got an identity of its own
OrphanReindexed ==
    \E e \in ResolvedFaces :
        /\ e.status = "indexed"
        /\ Truthy(e.search_error)
        /\ \E x \in faces : x.FaceId \in OrphanIds /\ x.FaceId < Val(e.new_face)

----------------------------------------------------------------------------
\* the step in which the POST of the batch's updates is answered or fails
PostStep == enrich_pc = "post" /\ enrich_pc' # "post"

\* the POST stored nothing: none of the updates' events has got media
PostFailedNow ==
    \A k \in 1 .. Len(valid_updates) : valid_updates[k].eventId \notin enriched'

FailedPostContinuesStep ==
    (PostStep /\ PostFailedNow) =>
        /\ total_enriched_count' = total_enriched_count
        /\ enrich_pc' = AfterBatch(events_to_process)

(* C34: when the POST of a batch's updates fails, the total enriched count
   is left as it was and the run goes on as after any batch: to the request
   of the next batch when the batch was full, to its end when it was the
   last one. *)
C34_FailedPostContinues == [][FailedPostContinuesStep]_vars

\* What holds instead: the failed batch adds nothing to the total, and the
\* run goes on or ends
FailedPostAddsNothing ==
    [][(PostStep /\ PostFailedNow) =>
          /\ total_enriched_count' = total_enriched_count
          /\ enrich_pc' \in {AfterBatch(events_to_process), "summary"}]_vars

\* the POST of a full batch failed and the run ended without requesting the
\* next batch
FailedPostEndedRun ==
    /\ enrich_pc = "summary"
    /\ Len(events_to_process) = BATCH_SIZE
    /\ \A k \in TaskIds : TaskSt(k) \in Returned
    /\ valid_updates # <<>>
    /\ media_posts = <<valid_updates>>
    /\ \A k \in 1 .. Len(valid_updates) : valid_updates[k].eventId \notin enriched

----------------------------------------------------------------------------
\* the configured override time
OverrideTime == fromisoformat(Val(ManualStart))

(* C37: in a run with a manual backfill start time configured, the
   latest-timestamp query is not made; from_time_dt is the override time
   whatever the store holds; when override + 1ms is not before the window's
   end the run ends as "up to date" without a vendor request, and otherwise
   every search of the run has from = override + 1ms and to = the window's
   end. *)
C37_OverrideWindow ==
    Truthy(ManualStart) =>
        /\ calls.latest_ts = "none"
        /\ ~Truthy(latest_timestamp_str)
        /\ Truthy(from_time_dt) => Val(from_time_dt) = OverrideTime
        /\ Truthy(to_time_dt) =>
              IF DtGE(PlusMs(OverrideTime, 1), Val(to_time_dt))
              THEN pc = "done" /\ outcome = "up_to_date" /\ calls.reqs = 0
              ELSE /\ outcome # "up_to_date"
                   /\ pc \in {"summary", "done"} => calls.reqs >= 1
        /\ trace # <<>> => Kind(1) = "req"
        /\ \A j \in ReqIdx :
              (trace[j][2].queryType = "TIME_RANGE") =>
                  /\ trace[j][2].from = IsoZ(PlusMs(OverrideTime, 1))
                  /\ trace[j][2].to = IsoZ(Val(to_time_dt))

\* a later run: events after the override time are already stored, nothing
\* has been posted in this run yet, and the search starts at override + 1ms
\* again
C37_Witness ==
    /\ Truthy(ManualStart)
    /\ calls.posts = 0
    /\ \E d \in TimestampsOf(store) :
          DtGE(d, PlusMs(OverrideTime, 2))
    /\ trace # <<>>
    /\ Kind(1) = "req"
    /\ trace[1][2].queryType = "TIME_RANGE"
    /\ trace[1][2].from = IsoZ(PlusMs(OverrideTime, 1))

----------------------------------------------------------------------------
C39_PostedFaceEvents ==
    job = "face" =>
        /\ \A j \in PostIdx :
              LET body == trace[j][2]
              IN  /\ body # <<>>
                  /\ \A k \in 1 .. Len(body) :
                        /\ body[k].dict
                        /\ body[k].type = "CUSTOM_APPEARANCE"
                        /\ Truthy(body[k].timestamp)
                        /\ body[k].id \notin
                              {NoTimestampRecord.id, NotADictRecord.id}
        /\ \A r \in store :
              /\ r.type = "CUSTOM_APPEARANCE"
              /\ Truthy(r.timestamp)
        /\ total_failed_pages = calls.failed
        /\ calls.failed <= calls.posts

C39_EmptyPageStep ==
    (job = "face" /\ pc = "page" /\ pc' # "page"
        /\ KeptRecords(event_page) = <<>>) =>
        /\ pc' = "resume"
        /\ trace' = trace
        /\ calls'.posts = calls.posts
        /\ total_failed_pages' = total_failed_pages
        /\ total_posted_count' = total_posted_count
        /\ store' = store

(* C39: in the face job every posted body is non-empty and each of its
   events is an object of type CUSTOM_APPEARANCE with a timestamp, none of
   them a raw record that was no object or had no timestamp, and so is every
   stored event; failed_pages counts the failed POSTs only; and the step
   that handles a page of which the transform keeps nothing makes no POST
   and leaves failed_pages, the posted count and the store as they were. *)
C39_TransformBeforePost ==
    []C39_PostedFaceEvents /\ [][C39_EmptyPageStep]_vars

\* the run has posted a page and then skipped a yielded page of which the
\* transform kept nothing, without a POST and without counting it as failed
C39_Witness ==
    /\ job = "face"
    /\ total_failed_pages = 0
    /\ \E j \in YieldIdx :
          /\ trace[j][2] # <<>>
          /\ KeptRecords(trace[j][2]) = <<>>
          /\ \E i \in PostIdx : i < j
          /\ IF j = Len(trace) THEN pc # "page" ELSE Kind(j + 1) # "post"

----------------------------------------------------------------------------
(* Overlapping runs of generic_events_fetch_job.  Nothing in the job keeps  *)
(* a run from starting while another is in progress (two processes with a  *)
(* scheduler each, or a scheduler allowing several instances): each run is *)
(* a coroutine with its own locals, and the runs share the clock, the       *)
(* vendor and the system-of-record.  A step is one awaited call of a run.   *)

\* the ivars a run of this kind leaves alone
ishared == <<settings, vendor, job, pc, locals, outcome, calls,
             failed_last_run, trace, accepted, prev_watermark>>

\* 1. Get Server ID: the job is entered, get_servers_service answers
RunGetServers(r) ==
    LET f == coroutines[r]
    IN  /\ f.pc = "idle"
        /\ \/ coroutines' = [coroutines EXCEPT ![r] =
                 [f EXCEPT !.pc = "done", !.outcome = "aborted_servers"]]
           \/ \E servers_resp \in ServersResponses :
                LET sid == ExtractServerId(servers_resp)
                IN  coroutines' = [coroutines EXCEPT ![r] =
                       IF Truthy(sid)
                       THEN [f EXCEPT !.pc = "window", !.server_id = sid,
                                      !.outcome = "running"]
                       ELSE [f EXCEPT !.pc = "done",
                                      !.outcome = "aborted_servers"]]
        /\ UNCHANGED <<now, ticks, store, ishared, delivered, rvars, mvars, fvars, avars>>

\* 2. client.get(latest_ts_url): the run reads the watermark
RunResolveStart(r) ==
    LET f == coroutines[r]
    IN  /\ f.pc = "window"
        /\ \/ coroutines' = [coroutines EXCEPT ![r] =
                 [f EXCEPT !.pc = "done", !.outcome = "aborted_window"]]
           \/ \E fmt \in StoreFormats :
                LET w == LatestTimestamp(store)
                    latest == IF Truthy(w) THEN Some([dt |-> Val(w), tz |-> fmt])
                              ELSE None
                IN  coroutines' = [coroutines EXCEPT ![r] =
                       [f EXCEPT !.pc = "bounds",
                                 !.latest_timestamp_str = latest,
                                 !.from_time_dt = Some(StartTime(latest))]]
        /\ UNCHANGED <<now, ticks, store, ishared, delivered, rvars, mvars, fvars, avars>>

\* from_time_iso, to_time_iso of a run
RunFromIso(f) == ReplaceOffsetByZ(isoformat(Buffered(Val(f.from_time_dt))))
RunToIso(f) == ReplaceOffsetByZ(isoformat(Val(f.to_time_dt)))

\* to_time_dt = now; "already up-to-date", or the search is sent and the
\* vendor opens its cursor on the events of the window
RunComputeWindow(r) ==
    LET f == coroutines[r]
        g == [f EXCEPT !.to_time_dt = Some(now)]
    IN  /\ f.pc = "bounds"
        /\ coroutines' = [coroutines EXCEPT ![r] =
              IF UpToDate(Val(f.from_time_dt), now)
              THEN [g EXCEPT !.pc = "done", !.outcome = "up_to_date"]
              ELSE [g EXCEPT !.pc = "fetch",
                             !.remaining = MapRaw(SortedSeq(VendorMatches(
                                 InitialParams(Val(f.server_id), RunFromIso(g),
                                               RunToIso(g), API_PAGE_SIZE))))]]
        /\ UNCHANGED <<now, ticks, store, ishared, delivered, rvars, mvars, fvars, avars>>

\* the fetcher's next response: a page is yielded, or the results are over,
\* or the request fails and the sequence ends
RunFetchPage(r) ==
    LET f == coroutines[r]
    IN  /\ f.pc = "fetch"
        /\ \/ coroutines' = [coroutines EXCEPT ![r] =
                 [f EXCEPT !.pc = "summary", !.fetch_failed = TRUE]]
           \/ /\ f.remaining = <<>>
              /\ coroutines' = [coroutines EXCEPT ![r] = [f EXCEPT !.pc = "summary"]]
           \/ \E k \in 1 .. Min(API_PAGE_SIZE, Len(f.remaining)) :
                coroutines' = [coroutines EXCEPT ![r] =
                   [f EXCEPT !.pc = "post",
                             !.event_page = SubSeq(f.remaining, 1, k),
                             !.remaining = SubSeq(f.remaining, k + 1,
                                                  Len(f.remaining))]]
        /\ UNCHANGED <<now, ticks, store, ishared, delivered, rvars, mvars, fvars, avars>>

PageBodyPerRun(r, page) ==
    [k \in 1 .. Len(page) |-> [page[k] EXCEPT !.id = @ + 10 * r]]

\* json={"events": event_page}: the page as the vendor returned it
PageBody(r, page) == page

\* client.post(post_url, json={"events": event_page}) answers or fails
RunPostPage(r) ==
    LET f == coroutines[r]
    IN  /\ f.pc = "post"
        /\ \E result \in PostResults :
              IF PostFailed(result)
              THEN /\ coroutines' = [coroutines EXCEPT ![r] =
                         [f EXCEPT !.pc = "fetch",
                                   !.total_failed_pages = @ + 1]]
                   /\ UNCHANGED <<store, delivered>>
              ELSE /\ coroutines' = [coroutines EXCEPT ![r] =
                         [f EXCEPT !.pc = "fetch"]]
                   /\ store' = StoreAccept(store, PageBody(r, f.event_page))
                   /\ delivered' =
                         [i \in EventIds |->
                             IF i \in IdsOf(f.event_page)
                             THEN delivered[i] + 1 ELSE delivered[i]]
        /\ UNCHANGED <<now, ticks, ishared, rvars, mvars, fvars, avars>>

\* the summary is logged and the run returns
RunSummary(r) ==
    LET f == coroutines[r]
    IN  /\ f.pc = "summary"
        /\ coroutines' = [coroutines EXCEPT ![r] =
              [f EXCEPT !.pc = "done", !.outcome = "summary"]]
        /\ UNCHANGED <<now, ticks, store, ishared, delivered, rvars, mvars, fvars, avars>>

\* Time passes while some run has yet to read the clock.
OverlapTick ==
    /\ ticks < MaxTicks
    /\ \E r \in Runs : coroutines[r].pc \in {"idle", "window", "bounds"}
    /\ ticks' = ticks + 1
    /\ now' = PlusMs(now, 1)
    /\ UNCHANGED <<store, ishared, ovars, rvars, mvars, fvars, avars>>

OverlapStart == IngestIdle /\ ResolverInit /\ MediaInit /\ ApartInit

OverlapNext ==
    \/ OverlapTick
    \/ \E r \in Runs : RunGetServers(r)
    \/ \E r \in Runs : RunResolveStart(r)
    \/ \E r \in Runs : RunComputeWindow(r)
    \/ \E r \in Runs : RunFetchPage(r)
    \/ \E r \in Runs : RunPostPage(r)
    \/ \E r \in Runs : RunSummary(r)

SpecOverlap == OverlapStart /\ [][OverlapNext]_vars

----------------------------------------------------------------------------
\* every run has ended, with its summary or up to date, and none has met a
\* failed request or a failed POST
AllRunsClean ==
    \A r \in Runs :
        /\ coroutines[r].pc = "done"
        /\ coroutines[r].outcome \in {"summary", "up_to_date"}
        /\ ~coroutines[r].fetch_failed
        /\ coroutines[r].total_failed_pages = 0

\* the runs that searched the vendor, and the earliest start and the latest
\* end of their windows
Searched == {r \in Runs : coroutines[r].outcome = "summary"}
EarliestFrom ==
    CHOOSE d \in {Val(coroutines[r].from_time_dt) : r \in Searched} :
        \A r \in Searched : DtLE(d, Val(coroutines[r].from_time_dt))
LatestTo ==
    CHOOSE d \in {Val(coroutines[r].to_time_dt) : r \in Searched} :
        \A r \in Searched : DtGE(d, Val(coroutines[r].to_time_dt))

\* what a single run over the whole window stores
SingleRunIds ==
    IF Searched = {} THEN {}
    ELSE {i \in EventIds :
            /\ DtLE(Buffered(EarliestFrom), EventTime(i))
            /\ DtLE(EventTime(i), LatestTo)}

(* C33: with runs of the generic job overlapping in any way and a
   system-of-record that deduplicates by source id: an event is stored
   exactly if it was in an accepted POST, however often it was delivered,
   and it is stored once; and when every run has ended without a failed
   request or POST, the stored events are those a single run stores whose
   window is the whole of the windows searched (earliest start + 1ms to
   latest end). *)
C33_OverlapStoresOnce ==
    /\ Cardinality(store) = Cardinality(StoredIds)
    /\ \A i \in EventIds : (delivered[i] >= 1) <=> (i \in StoredIds)
    /\ StoredIds \subseteq EventIds
    /\ AllRunsClean => StoredIds = SingleRunIds

\* both runs read the same watermark before either had posted, both posted
\* the same event, and the store holds it once
C33_Witness ==
    /\ AllRunsClean
    /\ coroutines[1].from_time_dt = coroutines[2].from_time_dt
    /\ coroutines[1].latest_timestamp_str = coroutines[2].latest_timestamp_str
    /\ \A r \in Runs : coroutines[r].outcome = "summary"
    /\ \E i \in EventIds : delivered[i] = 2
    /\ Cardinality(store) = 2

----------------------------------------------------------------------------
(* The facial recognition job:                                              *)
(*   app/scheduler/event_facial_recognition_scheduler.py                    *)
(* process_events_for_facial_recognition_job is a coroutine, its position  *)
(* is recog_pc; the loop over a batch is synchronous, an event at a step.  *)
(* services/aws_services.py does not define the function the module        *)
(* imports, process_face_search_and_index: it is taken as the job uses it, *)
(* a call that returns a result with a status or raises.                   *)

\* the events of the system-of-record, and the limit of a batch (FETCH_LIMIT
\* is 100 in the code; the job only passes it on)
NumRecogEvents == 3
FETCH_LIMIT == 2
\* the count of the final log line is followed up to this value
MaxProcessed == 4

RecogEvents == 1 .. NumRecogEvents

\* An event document as the system-of-record returns it; event 1 has no
\* image.
RecogEventDoc(e) ==
    [_id |-> Some(e), imageBaseString |-> IF e = 1 THEN None ELSE Some(e)]

\* System-of-record, GET /events/for-recognition?limit=FETCH_LIMIT: events
\* without an accepted update, at most limit of them
NeedingRecognition == RecogEvents \ recognised

RecognitionBatches ==
    LET n == Min(FETCH_LIMIT, Cardinality(NeedingRecognition))
    IN  {[k \in 1 .. n |-> RecogEventDoc(SortedSeq(S)[k])] :
            S \in {T \in SUBSET NeedingRecognition : Cardinality(T) = n}}

\* What process_face_search_and_index(image_bytes) may give: an exception
\* (also of base64.b64decode), or a result with a status, with or without
\* face_info; face_info is an object with a FaceId, or something without the
\* attribute.
RecogStatuses == {"matched", "indexed", "low_quality_face", "no_face", "error"}

ProcessingResults(e) ==
    {[raised |-> TRUE, status |-> "none", face_info |-> None,
      error_message |-> None]}
    \cup {[raised |-> FALSE, status |-> s, face_info |-> fi,
           error_message |-> None] :
            s \in {"matched", "indexed"},
            fi \in {None, Some([FaceId |-> Some(e)]), Some([dict |-> TRUE])}}
    \cup {[raised |-> FALSE, status |-> s, face_info |-> None,
           error_message |-> IF s = "error" THEN Some("processing error")
                             ELSE None] :
            s \in {"low_quality_face", "no_face", "error"}}

\* the except branch: "match_result": "error", "new_face_indexed": False
ErrorUpdate(event_id) ==
    [eventId |-> event_id, personId |-> None, personFace |-> None,
     face_processing |->
        [processed |-> TRUE, match_result |-> "error",
         new_face_indexed |-> FALSE,
         error_message |-> Some("Scheduler-side error")]]

\* update_payload of an event whose processing returned (lines 65-116)
UpdateFor(event_id, result) ==
    LET status == result.status
        face_info == result.face_info
        face_processing_payload ==
            [processed |-> TRUE, match_result |-> status,
             new_face_indexed |-> status = "indexed",
             error_message |-> result.error_message]
        update_payload ==
            [eventId |-> event_id, personId |-> None, personFace |-> None,
             face_processing |-> face_processing_payload]
    IN  IF status \in {"matched", "indexed"}
        THEN IF Truthy(face_info)
             THEN [update_payload EXCEPT
                      !.personId = Val(face_info).FaceId,
                      !.personFace = face_info]
             ELSE [update_payload EXCEPT
                      !.face_processing.match_result = "error",
                      !.face_processing.error_message =
                          Some("Inconsistent state: face_info is missing")]
        ELSE update_payload

\* does the try block of the event raise?  The call raises, or face_info has
\* no attribute FaceId
Raises(result) ==
    \/ result.raised
    \/ /\ result.status \in {"matched", "indexed"}
       /\ Truthy(result.face_info)
       /\ "FaceId" \notin DOMAIN Val(result.face_info)

OnProcessingErrorSkips(updates, event_id) == updates

\* except Exception: updates_to_send.append({... "match_result": "error"})
OnProcessingError(updates, event_id) == Append(updates, ErrorUpdate(event_id))

\* The scheduler calls run_async_facial_recognition_job
StartRecognition ==
    /\ recog_pc = "idle"
    /\ recog_pc' = "fetch"
    /\ total_processed_count' = 0
    /\ recog_events' = <<>>
    /\ recog_k' = 0
    /\ updates_to_send' = <<>>
    /\ recog_log' = <<>>
    /\ update_posts' = <<>>
    /\ UNCHANGED <<recognised, ivars, rvars, mvars, ovars, avars>>

\* updates_to_send = [] at the top of the loop, and
\* 1. client.get(fetch_url, params={"limit": FETCH_LIMIT})
FetchForRecognition ==
    /\ recog_pc = "fetch"
    /\ updates_to_send' = <<>>
    /\ recog_log' = <<>>
    /\ update_posts' = <<>>
    /\ \/ \* the GET fails or raise_for_status raises: the job's except
          /\ recog_pc' = "finished"
          /\ UNCHANGED <<recog_events, recog_k, total_processed_count>>
       \/ \E events \in RecognitionBatches :
            IF events = <<>>
            THEN \* "No new events found": break
                 /\ recog_pc' = "finished"
                 /\ recog_events' = events
                 /\ UNCHANGED <<recog_k, total_processed_count>>
            ELSE /\ recog_events' = events
                 /\ recog_k' = 1
                 /\ total_processed_count' =
                       Min(total_processed_count + Len(events), MaxProcessed)
                 /\ recog_pc' = "process"
    /\ UNCHANGED <<recognised, ivars, rvars, mvars, ovars, avars>>

\* 2. the loop body for one event of the batch
ProcessEvent ==
    LET event == recog_events[recog_k]
        event_id == event._id
        image_b64 == event.imageBaseString
    IN  /\ recog_pc = "process"
        /\ recog_k' = recog_k + 1
        /\ recog_pc' = IF recog_k = Len(recog_events) THEN "post" ELSE "process"
        /\ IF ~Truthy(event_id) \/ ~Truthy(image_b64)
           THEN \* "Skipping event due to missing ...": continue
                /\ recog_log' = Append(recog_log, [skipped |-> TRUE, raised |-> FALSE])
                /\ UNCHANGED updates_to_send
           ELSE \E result \in ProcessingResults(Val(event_id)) :
                  /\ recog_log' = Append(recog_log,
                        [skipped |-> FALSE, raised |-> Raises(result)])
                  /\ updates_to_send' =
                        IF Raises(result)
                        THEN OnProcessingError(updates_to_send, Val(event_id))
                        ELSE Append(updates_to_send,
                                    UpdateFor(Val(event_id), result))
        /\ UNCHANGED <<recog_events, total_processed_count, recognised,
                       update_posts, ivars, rvars, mvars, ovars, avars>>

\* 3. if updates_to_send: client.post(update_url, json={"updates": ...})
PostRecognitionUpdates ==
    /\ recog_pc = "post"
    /\ IF updates_to_send = <<>>
       THEN /\ recog_pc' = "fetch"
            /\ UNCHANGED <<recognised, update_posts>>
       ELSE /\ update_posts' = Append(update_posts, updates_to_send)
            /\ \/ \* 2xx: the updates are accepted
                  /\ recognised' = recognised \cup
                        {updates_to_send[k].eventId : k \in 1 .. Len(updates_to_send)}
                  /\ recog_pc' = "fetch"
               \/ \* raise_for_status raises, or the POST itself fails
                  /\ UNCHANGED recognised
                  /\ recog_pc' = "finished"
    /\ UNCHANGED <<recog_events, recog_k, updates_to_send, recog_log,
                   total_processed_count, ivars, rvars, mvars, ovars, avars>>

\* finally: "Facial recognition job finished. ..."; the job returns
RecognitionFinished ==
    /\ recog_pc = "finished"
    /\ recog_pc' = "idle"
    /\ UNCHANGED <<recog_events, recog_k, updates_to_send, recog_log,
                   total_processed_count, recognised, update_posts,
                   ivars, rvars, mvars, ovars, avars>>

\* The system-of-record when the job is first run: every event is waiting,
\* or all but the event without image
RecogPending ==
    /\ recog_pc = "idle"
    /\ recog_events = <<>>
    /\ recog_k = 0
    /\ updates_to_send = <<>>
    /\ recog_log = <<>>
    /\ total_processed_count = 0
    /\ recognised \in {{}, {1}}
    /\ update_posts = <<>>

RecogStart ==
    /\ IngestIdle /\ ResolverInit /\ MediaInit /\ OverlapInit /\ AuditInit
    /\ RecogPending

RecogNext ==
    \/ StartRecognition
    \/ FetchForRecognition
    \/ ProcessEvent
    \/ PostRecognitionUpdates
    \/ RecognitionFinished

SpecRecog == RecogStart /\ [][RecogNext]_vars

\* The scheduler keeps invoking the job, and every call of a run returns.
RecogFairness ==
    /\ WF_vars(StartRecognition)
    /\ WF_vars(FetchForRecognition)
    /\ WF_vars(ProcessEvent)
    /\ WF_vars(PostRecognitionUpdates)
    /\ WF_vars(RecognitionFinished)

SpecRecogFair == SpecRecog /\ RecogFairness

----------------------------------------------------------------------------
\* the events of the batch that the loop has been through
Processed == 1 .. Len(recog_log)

\* the events of the batch that have both an id and an image
Eligible(k) ==
    Truthy(recog_events[k]._id) /\ Truthy(recog_events[k].imageBaseString)

\* the position in updates_to_send of the update of the batch's k-th event
UpdateIndex(k) == Cardinality({j \in 1 .. k : Eligible(j)})

\* the loop over the batch is over and the batch's POST, if any, is made
RecogBatchClosed ==
    /\ recog_events # <<>>
    /\ Len(recog_log) = Len(recog_events)
    /\ recog_pc # "post"

(* C35: in the facial recognition job, the updates of a batch are, in the
   batch's order, one per event gone through that has an id and an image,
   under that event's id and with a match_result, which is "error" where the
   event's processing raised, whatever the other events of the batch gave;
   events without id or image have none; and once the loop is over the
   batch has had exactly one POST, of those updates, or none when there is
   no update. *)
C35_OneUpdatePerEvent ==
    /\ Len(recog_log) <= Len(recog_events)
    /\ Len(updates_to_send) = Cardinality({k \in Processed : Eligible(k)})
    /\ \A k \in Processed :
          /\ recog_log[k].skipped <=> ~Eligible(k)
          /\ Eligible(k) =>
                LET u == updates_to_send[UpdateIndex(k)]
                IN  /\ u.eventId = Val(recog_events[k]._id)
                    /\ u.face_processing.match_result \in RecogStatuses
                    /\ recog_log[k].raised =>
                          /\ u.face_processing.match_result = "error"
                          /\ u.face_processing.error_message =
                                Some("Scheduler-side error")
    /\ Len(update_posts) <= 1
    /\ \A j \in 1 .. Len(update_posts) : update_posts[j] = updates_to_send
    /\ RecogBatchClosed =>
          update_posts = IF updates_to_send = <<>> THEN <<>>
                         ELSE <<updates_to_send>>

\* a batch of two events with id and image: the processing of the first
\* raised, the second was matched, and both updates were posted
C35_Witness ==
    /\ RecogBatchClosed
    /\ Len(recog_events) = 2
    /\ recog_log[1].raised
    /\ ~recog_log[2].raised
    /\ Len(updates_to_send) = 2
    /\ updates_to_send[1].face_processing.match_result = "error"
    /\ updates_to_send[2].face_processing.match_result = "matched"
    /\ update_posts = <<updates_to_send>>

----------------------------------------------------------------------------
\* the updates the job has sent in the batch's POST
SentUpdates ==
    {update_posts[j][k] : j \in 1 .. Len(update_posts),
                          k \in 1 .. Len(updates_to_send)}

(* C36: in every update the facial recognition job sends, new_face_indexed
   is true only if match_result is "indexed", and personId is non-null only
   if match_result is "matched" or "indexed". *)
C36_FlagsFollowResult ==
    \A u \in SentUpdates :
        /\ u.face_processing.new_face_indexed =>
              u.face_processing.match_result = "indexed"
        /\ Truthy(u.personId) =>
              u.face_processing.match_result \in {"matched", "indexed"}

\* the half of C36 about personId, and new_face_indexed only where the
\* processing's own status was "indexed" or the update says so
PersonIdFollowsResult ==
    \A u \in SentUpdates :
        /\ Truthy(u.personId) =>
              u.face_processing.match_result \in {"matched", "indexed"}
        /\ u.face_processing.new_face_indexed =>
              u.face_processing.match_result \in {"indexed", "error"}
        /\ (u.face_processing.new_face_indexed
              /\ u.face_processing.match_result = "error") =>
              u.face_processing.error_message =
                  Some("Inconsistent state: face_info is missing")

\* an update was sent that says both "error" and new_face_indexed
IndexedFlagOnError ==
    \E u \in SentUpdates :
        /\ u.face_processing.match_result = "error"
        /\ u.face_processing.new_face_indexed
        /\ u.personId = None

----------------------------------------------------------------------------
\* the waiting events that the loop skips: no id or no image
Unprocessable ==
    {e \in NeedingRecognition :
        ~Truthy(RecogEventDoc(e)._id) \/ ~Truthy(RecogEventDoc(e).imageBaseString)}

\* the loop is left at the GET only: by an empty batch, or by the GET's
\* failure, which leaves events_to_process as it was
LeavesOnEmptyBatchStep ==
    (recog_pc = "fetch" /\ recog_pc' = "finished") =>
        (recog_events' = <<>> \/ recog_events' = recog_events)

(* C31: a facial recognition run keeps fetching batches until the
   system-of-record returns an empty batch, and every run that has started
   finishes, the system-of-record no longer returning an event once an
   update for it has been accepted. *)
C31_RunFinishes ==
    /\ [][LeavesOnEmptyBatchStep]_vars
    /\ (recog_pc = "fetch") ~> (recog_pc = "finished")

\* what holds instead: a run finishes when every waiting event has an id
\* and an image
RunFinishesWhenAllProcessable ==
    /\ [][LeavesOnEmptyBatchStep]_vars
    /\ (recog_pc = "fetch" /\ Unprocessable = {}) ~> (recog_pc = "finished")

\* a batch made of an event without image only has gone round the loop with
\* no update and no POST, and the event is still waiting
SkippedEventRefetched ==
    /\ recog_pc = "fetch"
    /\ Len(recog_events) = 1
    /\ Len(recog_log) = 1
    /\ recog_log[1].skipped
    /\ updates_to_send = <<>>
    /\ update_posts = <<>>
    /\ Val(recog_events[1]._id) \in Unprocessable
    /\ total_processed_count = MaxProcessed

----------------------------------------------------------------------------
(* The orphan audit: find_orphaned_users.py                                *)
(*                                                                         *)
(* audit_users lists the users of the Rekognition collection, fetches the  *)
(* central users, and prints the user ids that are in the first and not in *)
(* the second.  The two systems are the resolver's: rek_users, the user    *)
(* ids of the collection, and central_users, the central database's users. *)

\* the identities the two systems may hold when the audit is run
NumIdentities == 3
AuditIds == 1 .. NumIdentities

\* paginator.paginate(CollectionId=...): every page's Users, page after page
ListedUsers == [k \in 1 .. Cardinality(rek_users) |->
                    [UserId |-> Some(SortedSeq(rek_users)[k])]]

\* {user["_id"]: user for user in users if "_id" in user}
CentralUsersById ==
    [i \in {u.id : u \in central_users} |->
        CHOOSE u \in central_users : u.id = i]

\* the loop of audit_users over rek_users (lines 101-112)
RECURSIVE FindOrphaned(_, _)
FindOrphaned(users, by_id) ==
    IF users = <<>> THEN <<>>
    ELSE LET user_id == Head(users).UserId
         IN  IF ~Truthy(user_id) THEN FindOrphaned(Tail(users), by_id)
             ELSE IF Val(user_id) \notin DOMAIN by_id
             THEN <<Val(user_id)>> \o FindOrphaned(Tail(users), by_id)
             ELSE FindOrphaned(Tail(users), by_id)

\* audit_users, up to rek_users = get_all_rekognition_users(collection_id)
AuditListUsers ==
    /\ audit_pc = "idle"
    /\ \/ \* every page is listed
          /\ all_users' = ListedUsers
          /\ audit_failed' = FALSE
       \/ \* ClientError: return []
          /\ all_users' = <<>>
          /\ audit_failed' = TRUE
    /\ audit_pc' = IF all_users' = <<>> THEN "complete" ELSE "fetch"
    /\ central_users_by_id' = <<>>
    /\ orphaned_users' = <<>>
    /\ audit_report' = None
    /\ UNCHANGED <<ivars, rvars, mvars, ovars, fvars>>

\* central_users_by_id = get_all_central_users_sync()
AuditFetchCentral ==
    /\ audit_pc = "fetch"
    /\ \/ \* GET /users answers a list
          /\ central_users_by_id' = CentralUsersById
          /\ UNCHANGED audit_failed
       \/ \* the GET fails, or the answer is not a list: return {}
          /\ central_users_by_id' = <<>>
          /\ audit_failed' = TRUE
    /\ audit_pc' = IF DOMAIN central_users_by_id' = {} THEN "aborted"
                   ELSE "compare"
    /\ UNCHANGED <<all_users, orphaned_users, audit_report,
                   ivars, rvars, mvars, ovars, fvars>>

\* the loop over rek_users and the report
AuditReport ==
    /\ audit_pc = "compare"
    /\ orphaned_users' = FindOrphaned(all_users, central_users_by_id)
    /\ audit_report' = Some(orphaned_users')
    /\ audit_pc' = "reported"
    /\ UNCHANGED <<all_users, central_users_by_id, audit_failed,
                   ivars, rvars, mvars, ovars, fvars>>

\* The two systems when the audit is run: any users in the collection, any
\* in the central database
AuditStart ==
    /\ IngestIdle /\ MediaInit /\ ApartInit
    /\ faces = {}
    /\ rek_assoc = {}
    /\ uuids = 0
    /\ frames = [r \in Runs |-> IdleFrame]
    /\ rek_users \in SUBSET AuditIds
    /\ central_users \in
          {{[id |-> i, faceIds |-> {i}] : i \in S} : S \in SUBSET AuditIds}

AuditNext ==
    \/ AuditListUsers
    \/ AuditFetchCentral
    \/ AuditReport

SpecAudit == AuditStart /\ [][AuditNext]_vars

\* the users of the collection that are no central user's
Orphans == rek_users \ {u.id : u \in central_users}

\* the user ids the audit has reported as orphaned
ReportedOrphans ==
    IF Truthy(audit_report)
    THEN {Val(audit_report)[k] : k \in 1 .. Len(Val(audit_report))}
    ELSE {}

\* audit_users has returned
AuditEnded == audit_pc \in {"complete", "aborted", "reported"}

\* no step of the audit changes the collection or the central database
AuditReadsOnlyStep == UNCHANGED <<rek_users, central_users, faces, rek_assoc>>

(* C40: once the orphan audit has run, its calls answered, it has reported
   as orphaned exactly the users of the vector service whose id is not the
   id of any user of the system-of-record, and no step of it modifies
   either system. *)
C40_ReportsExactlyOrphans ==
    /\ []((AuditEnded /\ ~audit_failed) => ReportedOrphans = Orphans)
    /\ [][AuditReadsOnlyStep]_vars

\* what holds instead: a report that is printed names exactly the orphans,
\* each once; an audit whose calls were answered prints no report only when
\* one of the two systems has no user; and no step modifies either system
PrintedReportIsExact ==
    /\ [](audit_pc = "reported" =>
            /\ ReportedOrphans = Orphans
            /\ Len(Val(audit_report)) = Cardinality(Orphans))
    /\ []((AuditEnded /\ ~audit_failed /\ audit_pc # "reported") =>
            (rek_users = {} \/ central_users = {}))
    /\ [][AuditReadsOnlyStep]_vars

\* the central database has no user, the collection has, every call was
\* answered, and the audit has ended without a report
EmptyCentralHidesOrphans ==
    /\ audit_pc = "aborted"
    /\ ~audit_failed
    /\ central_users = {}
    /\ Orphans # {}
    /\ Orphans = rek_users
    /\ audit_report = None

\* a report was printed that names some of the collection's users but not
\* all
ReportedSomeOrphans ==
    /\ audit_pc = "reported"
    /\ ReportedOrphans # {}
    /\ ReportedOrphans # rek_users

====
